---- MODULE Spec2Model ----
(***************************************************************************)
(* The cascading metadata resolver of metaparser.py.                       *)
(*                                                                         *)
(* Text.  A metadata value, a file name and a glob pattern are sequences   *)
(* of pieces; the Python string is the concatenation of the pieces.  A     *)
(* delimiter, a white-space character and a glob character is always a     *)
(* piece of its own, and no other piece contains one.  Keys, directory     *)
(* segments and attribute names are only compared, so they are strings.    *)
(*                                                                         *)
(* Heap.  Python dicts and lists are objects: `dicts` and `lists` are the  *)
(* allocated objects, an object's id is its index.  A dict is the sequence *)
(* of its entries [k, v] in insertion order, v the id of the value list.   *)
(* `linklists` are the lists of LinkInfo objects (link_collector).          *)
(*                                                                         *)
(* Specifications.  Spec resolves one file against a rule document,        *)
(* SpecCalls several files in sequence, SpecNorm applies                   *)
(* transform_dict_values to maps of its own, and SpecRdf applies           *)
(* meta_to_rdf of rdftools.py, SpecUpsert upsert_with_policy of db_tool.py *)
(* to one session, and SpecCode bcode and bdecode of fntrans.py.           *)
(***************************************************************************)
EXTENDS Naturals, Sequences, FiniteSets, TLC

VARIABLES doc, heap, history, trace

vars == <<doc, heap, history, trace>>

\* ------------------------------------------------------------------ bounds

\* parse_metadata calls made in one behaviour
MaxCalls == 2

\* the keys of a map given to meta_to_rdf
MaxKeys == 2

\* upsert_with_policy calls made on one session
MaxUpserts == 2

\* the characters of a text given to bcode
MaxText == 4

\* the size of a list of values given to transform_dict_values: the number
\* of its values plus the number of their characters
MaxSize == 6

\* ------------------------------------------------------------ Python values

\* Python's None where a text is expected (element.text of an empty element)
PyNone == <<"<None>">>

\* Python's None used as a dict key (child.get("type") without the attribute)
NoneKey == "<None>"

\* the attribute_name argument None of set_attribute / append_attribute
NoAttribute == "<None>"

Range(s) == {s[i] : i \in DOMAIN s}

\* ---------------------------------------------------------------- strings

IsSpace(c) == c \in {" ", "\n", "\t"}

RECURSIVE lstrip(_)
lstrip(s) ==
  IF s # <<>> /\ IsSpace(Head(s)) THEN lstrip(Tail(s)) ELSE s

RECURSIVE rstrip(_)
rstrip(s) ==
  IF s # <<>> /\ IsSpace(s[Len(s)]) THEN rstrip(SubSeq(s, 1, Len(s) - 1)) ELSE s

\* str.strip()
strip(s) == rstrip(lstrip(s))

\* a faulty variant of split, str.split(sep, 1): it splits at the first
\* occurrence only
split_first(s, sep) ==
  LET occurrences == {i \in 1..(Len(s) - Len(sep) + 1) :
                        SubSeq(s, i, i + Len(sep) - 1) = sep}
  IN  IF occurrences = {} THEN <<s>>
      ELSE LET i == CHOOSE j \in occurrences : \A h \in occurrences : j <= h
           IN  <<SubSeq(s, 1, i - 1), SubSeq(s, i + Len(sep), Len(s))>>

\* str.split(sep) for a separator of one or more pieces: the parts between
\* its occurrences, found from the left and not overlapping
RECURSIVE split(_, _)
split(s, sep) ==
  LET occurrences == {i \in 1..(Len(s) - Len(sep) + 1) :
                        SubSeq(s, i, i + Len(sep) - 1) = sep}
  IN  IF occurrences = {} THEN <<s>>
      ELSE LET i == CHOOSE j \in occurrences : \A h \in occurrences : j <= h
           IN  <<SubSeq(s, 1, i - 1)>> \o split(SubSeq(s, i + Len(sep), Len(s)), sep)

\* a faulty variant of join, which leaves the separator out
RECURSIVE join_plain(_, _)
join_plain(values, sep) ==
  IF values = <<>> THEN <<>>
  ELSE values[1] \o join_plain(Tail(values), sep)

\* sep.join(values)
RECURSIVE join(_, _)
join(values, sep) ==
  IF values = <<>> THEN <<>>
  ELSE IF Len(values) = 1 THEN values[1]
  ELSE values[1] \o sep \o join(Tail(values), sep)

\* fnmatch.fnmatch(name, pat) on a case-sensitive file system: `*` matches any
\* run of characters, `?` one character, any other character itself
RECURSIVE fnmatch(_, _)
fnmatch(name, pat) ==
  IF pat = <<>> THEN name = <<>>
  ELSE IF Head(pat) = "*"
       THEN fnmatch(name, Tail(pat)) \/ (name # <<>> /\ fnmatch(Tail(name), pat))
  ELSE IF Head(pat) = "?"
       THEN name # <<>> /\ fnmatch(Tail(name), Tail(pat))
  ELSE name # <<>> /\ Head(name) = Head(pat) /\ fnmatch(Tail(name), Tail(pat))

\* ------------------------------------------------------------------ tables

uri_ns ==
  [u \in {"http://purl.org/dc/elements/1.1/", "http://purl.org/dc/terms/",
          "http://spdx.org/rdf/terms#", "http://www.w3.org/ns/dcat#"} |->
     CASE u = "http://purl.org/dc/elements/1.1/" -> "dc"
       [] u = "http://purl.org/dc/terms/" -> "dcterms"
       [] u = "http://spdx.org/rdf/terms#" -> "spdx"
       [] u = "http://www.w3.org/ns/dcat#" -> "dcat"]

\* an element tag is [uri, local]; uri = "" when the tag has no namespace
clark_to_qname(tag, mapping) ==
  IF tag.uri = "" THEN tag.local
  ELSE IF tag.uri \notin DOMAIN mapping THEN "{" \o tag.uri \o "}" \o tag.local
  ELSE IF mapping[tag.uri] # "" THEN mapping[tag.uri] \o ":" \o tag.local
  ELSE tag.local

\* the reserved marker of an embedded fragment
XmlMarker == <<"__xml__:">>

\* the attributes process_metadata copies with set_attribute, in its order
SetAttributes ==
  << <<"creator", "dc:creator">>, <<"date", "dc:date">>,
     <<"description", "dc:description">>, <<"title", "dc:title">>,
     <<"prefix", "mfterms:prefix">>, <<"meta-manager", "mfterms:meta-manager">>,
     <<"data-policy", "mfterms:data-policy">> >>

\* the attributes process_metadata copies with append_attribute, in its order
AddAttributes ==
  << <<"creator.add", "dc:creator">>, <<"date.add", "dc:date">>,
     <<"description.add", "dc:description">>, <<"title.add", "dc:title">>,
     <<"prefix.add", "mfterms:prefix">>,
     <<"meta-manager.add", "mfterms:meta-manager">> >>

\* the joiners parse_metadata passes to transform_dict_values
Joiners ==
  [k \in {"mfterms:prefix", "mfterms:meta-manager", "dc:description"} |->
     CASE k = "mfterms:prefix" -> <<>>
       [] k = "mfterms:meta-manager" -> <<"+">>
       [] k = "dc:description" -> <<"\n">>]

\* the splitters parse_metadata passes to transform_dict_values
Splitters == [k \in {"dc:creator", "dc:contributor"} |-> <<",">>]

\* -------------------------------------------------------------------- heap

\* the run-time state a call works on: the heap, the shared meta_path list,
\* the two collectors, the pending exception, the value last returned, and
\* the record of what the walk did (visits, overlays)
EmptyHeap == [dicts |-> <<>>, lists |-> <<>>, linklists |-> <<>>]

Raise(st, e) == [st EXCEPT !.err = e]

\* a new list object; its id is Len(lists) afterwards
NewList(st, values) == [st EXCEPT !.lists = Append(@, values)]

\* a new dict object with the given entries; its id is Len(dicts) afterwards
NewDict(st, entries) ==
  [st EXCEPT !.dicts = Append(@, entries), !.ret = Len(st.dicts) + 1]

\* key in metadata
HasKey(entries, key) == \E i \in DOMAIN entries : entries[i].k = key

KeyIndex(entries, key) == CHOOSE i \in DOMAIN entries : entries[i].k = key

\* metadata[key] = <list lst>: an existing key keeps its place
SetItem(entries, key, lst) ==
  IF HasKey(entries, key)
  THEN [i \in DOMAIN entries |->
          IF entries[i].k = key THEN [k |-> key, v |-> lst] ELSE entries[i]]
  ELSE Append(entries, [k |-> key, v |-> lst])

\* the value of a dict: its keys in order, each with the content of its list
DictValue(h, d) == [i \in DOMAIN h.dicts[d] |->
                      [k |-> h.dicts[d][i].k, v |-> h.lists[h.dicts[d][i].v]]]

\* the list objects a dict refers to
DictLists(h, d) == {h.dicts[d][i].v : i \in DOMAIN h.dicts[d]}

\* a faulty variant of deepcopy, dict(metadata): a new dict that shares the
\* lists of the old one
shallow_copy(st, m) ==
  [st EXCEPT !.dicts = Append(@, st.dicts[m]), !.ret = Len(st.dicts) + 1]

\* copy.deepcopy(metadata): a new dict whose lists are new objects
deepcopy(st, m) ==
  LET old == st.dicts[m]
      base == Len(st.lists)
  IN  [st EXCEPT !.lists = @ \o [i \in DOMAIN old |-> st.lists[old[i].v]],
                 !.dicts = Append(@, [i \in DOMAIN old |->
                                        [k |-> old[i].k, v |-> base + i]]),
                 !.ret = Len(st.dicts) + 1]

\* ----------------------------------------------------------------- overlay

\* element.get(name): the attribute, or None
Get(element, name) ==
  IF name \in DOMAIN element.attrib THEN element.attrib[name] ELSE NoneKey

\* metadata[meta_name] = <a new list of values>
StoreList(st, m, meta_name, values) ==
  LET st1 == NewList(st, values)
  IN  [st1 EXCEPT !.dicts[m] = SetItem(@, meta_name, Len(st1.lists))]

\* metadata[meta_name] = [value]
StoreSingle(st, m, meta_name, value) == StoreList(st, m, meta_name, <<value>>)

\* a faulty variant of set_attribute, which appends to the inherited values
set_attribute_appends(st, m, element, attribute_name, meta_name) ==
  LET value == IF attribute_name = NoAttribute THEN element.text
               ELSE element.attrib[attribute_name]
  IN  IF attribute_name # NoAttribute /\ attribute_name \notin DOMAIN element.attrib
      THEN st
      ELSE IF HasKey(st.dicts[m], meta_name)
      THEN [st EXCEPT !.lists[st.dicts[m][KeyIndex(st.dicts[m], meta_name)].v] =
                         Append(@, value)]
      ELSE StoreSingle(st, m, meta_name, value)

\* a faulty variant of set_attribute, which stores element.get(name), None
\* for an absent attribute
set_attribute_none(st, m, element, attribute_name, meta_name) ==
  IF attribute_name = NoAttribute
  THEN StoreSingle(st, m, meta_name, element.text)
  ELSE IF attribute_name \in DOMAIN element.attrib
  THEN StoreSingle(st, m, meta_name, element.attrib[attribute_name])
  ELSE StoreSingle(st, m, meta_name, PyNone)

set_attribute(st, m, element, attribute_name, meta_name) ==
  IF attribute_name = NoAttribute
  THEN StoreSingle(st, m, meta_name, element.text)
  ELSE IF attribute_name \in DOMAIN element.attrib
  THEN StoreSingle(st, m, meta_name, element.attrib[attribute_name])
  ELSE st

\* ET.tostring(frag) after cleanup_namespaces: the start tag with the
\* namespace declaration it needs, the content, the end tag
tostring(frag) ==
  LET name == IF frag.prefix = "" THEN frag.tag.local
              ELSE frag.prefix \o ":" \o frag.tag.local
      decl == IF frag.tag.uri = "" THEN <<>>
              ELSE IF frag.prefix = ""
              THEN <<" ", "xmlns=\"" \o frag.tag.uri \o "\"">>
              ELSE <<" ", "xmlns:" \o frag.prefix \o "=\"" \o frag.tag.uri \o "\"">>
  IN  IF frag.text = <<>>
      THEN <<"<" \o name>> \o decl \o <<"/>">>
      ELSE <<"<" \o name>> \o decl \o <<">">> \o frag.text \o <<"</" \o name \o ">">>

\* the key and the serialized value of the first child of a set/add element
extra_key_value(element) ==
  LET frag == element.kids[1]
  IN  [meta_name |-> clark_to_qname(frag.tag, uri_ns), value |-> tostring(frag)]

set_extra_attribute(st, m, element) ==
  LET kv == extra_key_value(element)
  IN  StoreSingle(st, m, kv.meta_name, XmlMarker \o kv.value)

\* metadata[meta_name].append(value), or a new one-element list
AppendOrCreate(st, m, meta_name, appended, created) ==
  IF HasKey(st.dicts[m], meta_name)
  THEN [st EXCEPT !.lists[st.dicts[m][KeyIndex(st.dicts[m], meta_name)].v] =
                     Append(@, appended)]
  ELSE StoreSingle(st, m, meta_name, created)

append_attribute(st, m, element, attribute_name, meta_name) ==
  IF attribute_name = NoAttribute
  THEN IF element.text = PyNone
       THEN Raise(st, "AttributeError")
       ELSE AppendOrCreate(st, m, meta_name, strip(element.text), strip(element.text))
  ELSE IF attribute_name \in DOMAIN element.attrib
  THEN AppendOrCreate(st, m, meta_name, element.attrib[attribute_name],
                      element.attrib[attribute_name])
  ELSE st

append_extra_attribute(st, m, element) ==
  LET kv == extra_key_value(element)
  IN  AppendOrCreate(st, m, kv.meta_name, XmlMarker \o kv.value, kv.value)

\* set_attribute for SetAttributes[i..], in order
RECURSIVE set_attributes(_, _, _, _)
set_attributes(st, m, element, i) ==
  IF i > Len(SetAttributes) THEN st
  ELSE set_attributes(
         set_attribute(st, m, element, SetAttributes[i][1], SetAttributes[i][2]),
         m, element, i + 1)

\* append_attribute for AddAttributes[i..], in order
RECURSIVE append_attributes(_, _, _, _)
append_attributes(st, m, element, i) ==
  IF i > Len(AddAttributes) THEN st
  ELSE append_attributes(
         append_attribute(st, m, element, AddAttributes[i][1], AddAttributes[i][2]),
         m, element, i + 1)

\* one child of the namespaced metadata block
extra_child(st, m, child) ==
  IF child.tag = "set"
  THEN IF Len(child.kids) = 0
       THEN set_attribute(st, m, child, NoAttribute, Get(child, "type"))
       ELSE set_extra_attribute(st, m, child)
  ELSE IF child.tag = "add"
  THEN IF Len(child.kids) = 0
       THEN append_attribute(st, m, child, NoAttribute, Get(child, "type"))
       ELSE append_extra_attribute(st, m, child)
  ELSE Raise(st, "ValueError")

\* the children of the metadata block from the i-th on; an exception ends it
RECURSIVE extra_children(_, _, _, _)
extra_children(st, m, children, i) ==
  IF i > Len(children) \/ st.err # "none" THEN st
  ELSE extra_children(extra_child(st, m, children[i]), m, children, i + 1)

\* a faulty variant of process_metadata, which applies the add attributes
\* before the set attributes
process_metadata_adds_first(st, metadata, meta_element) ==
  LET st0 == deepcopy(st, metadata)
      m   == st0.ret
      st1 == append_attributes(st0, m, meta_element, 1)
      st2 == set_attributes(st1, m, meta_element, 1)
      st3 == IF Len(meta_element.blocks) > 0
             THEN extra_children(st2, m, meta_element.blocks[1], 1)
             ELSE st2
  IN  IF st3.err # "none" THEN st3
      ELSE [st3 EXCEPT !.ret = m,
                       !.overlays = Append(@, [element |-> meta_element,
                                               base |-> metadata,
                                               baseValue |-> DictValue(st, metadata),
                                               out |-> m,
                                               outValue |-> DictValue(st3, m)])]

\* process_metadata: the overlay of meta_element's operations on a deep copy
\* of metadata; ret is the copy.  Every overlay is recorded with the value
\* its argument had when it was called.
process_metadata(st, metadata, meta_element) ==
  LET st0 == deepcopy(st, metadata)
      m   == st0.ret
      st1 == set_attributes(st0, m, meta_element, 1)
      st2 == append_attributes(st1, m, meta_element, 1)
      st3 == IF Len(meta_element.blocks) > 0
             THEN extra_children(st2, m, meta_element.blocks[1], 1)
             ELSE st2
  IN  IF st3.err # "none" THEN st3
      ELSE [st3 EXCEPT !.ret = m,
                       !.overlays = Append(@, [element |-> meta_element,
                                               base |-> metadata,
                                               baseValue |-> DictValue(st, metadata),
                                               out |-> m,
                                               outValue |-> DictValue(st3, m)])]

\* -------------------------------------------------------------------- walk

\* The rule document is the sequence of its dir/files/other elements in
\* document order; node 1 is the root, `parent` the index of the enclosing
\* element.  An element's tag "dir", "files", "link", "set", "add" stands for
\* that name in the metafiles namespace.
Children(n) == {i \in DOMAIN doc : doc[i].parent = n}

is_prefix(shorter, longer) ==
  SubSeq(longer, 1, IF Len(shorter) < Len(longer) THEN Len(shorter) ELSE Len(longer))
    = shorter

\* a faulty variant of link_children, where a link's metadata starts from the
\* map of the selector that holds it
RECURSIVE link_children_inherit(_, _, _)
link_children_inherit(st, children, i) ==
  IF i > Len(children) \/ st.err # "none" THEN st
  ELSE IF children[i].tag # "link" THEN link_children_inherit(st, children, i + 1)
  ELSE LET st1 == process_metadata(st, st.collector[Len(st.collector)], children[i])
       IN  link_children_inherit(
             IF st1.err # "none" THEN st1
             ELSE [st1 EXCEPT !.linklists[st.link_collector] =
                     Append(@, [type |-> Get(children[i], "type"),
                                path |-> Get(children[i], "path"),
                                metadata |-> st1.ret])],
             children, i + 1)

\* the Link children of the first links block from the i-th on
RECURSIVE link_children(_, _, _)
link_children(st, children, i) ==
  IF i > Len(children) \/ st.err # "none" THEN st
  ELSE IF children[i].tag # "link" THEN link_children(st, children, i + 1)
  ELSE LET st1 == process_metadata(NewDict(st, <<>>), Len(st.dicts) + 1, children[i])
       IN  link_children(
             IF st1.err # "none" THEN st1
             ELSE [st1 EXCEPT !.linklists[st.link_collector] =
                     Append(@, [type |-> Get(children[i], "type"),
                                path |-> Get(children[i], "path"),
                                metadata |-> st1.ret])],
             children, i + 1)

process_links(st, meta_element) ==
  IF Len(meta_element.links) > 0
  THEN link_children(st, meta_element.links[1], 1)
  ELSE st

\* bool(meta_element.get('recursive', False)): a present attribute is its
\* string, and a string is true unless it is empty
recursive_flag(meta_element) ==
  "recursive" \in DOMAIN meta_element.attrib /\ meta_element.attrib["recursive"] # ""

\* the condition of the if in collect_files: the filename, or else the pattern
files_match(meta_element, file_name) ==
  \/ ("filename" \in DOMAIN meta_element.attrib
        /\ meta_element.attrib["filename"] = file_name)
  \/ ("filename" \notin DOMAIN meta_element.attrib
        /\ fnmatch(file_name,
                   IF "pattern" \in DOMAIN meta_element.attrib
                   THEN meta_element.attrib["pattern"] ELSE <<"*">>))

\* a visit of the walk: the node, the meta_path it is matched with, the map
\* it is given with the value the map has then, and whether it matched
Visit(st, n, metadata, matched) ==
  [st EXCEPT !.visits = Append(@, [node |-> n, meta_path |-> st.meta_path,
                                   base |-> metadata,
                                   baseValue |-> DictValue(st, metadata),
                                   matched |-> matched])]

collect_files(st, file, metadata, n) ==
  LET meta_element == doc[n]
      recursive == recursive_flag(meta_element)
      real_path == file.dir
      file_name == file.name
      depth_ok  == real_path = st.meta_path \/ recursive
      matched   == depth_ok /\ files_match(meta_element, file_name)
      st0 == Visit(st, n, metadata, matched)
  IN  IF ~depth_ok THEN st0
      ELSE IF ~matched THEN st0
      ELSE LET st1 == process_metadata(st0, metadata, meta_element)
           IN  IF st1.err # "none" THEN st1
               ELSE process_links([st1 EXCEPT !.collector = Append(@, st1.ret)],
                                  meta_element)

RECURSIVE collect_dir(_, _, _, _)
RECURSIVE dir_children(_, _, _, _, _)

\* for element in meta_element: the children with index >= i, in document order
dir_children(st, file, metadata, n, i) ==
  IF st.err # "none" \/ ~(\E c \in Children(n) : c >= i) THEN st
  ELSE LET c == CHOOSE c \in Children(n) : c >= i /\ \A e \in Children(n) : e >= i => c <= e
           st1 == IF doc[c].tag = "dir" THEN collect_dir(st, file, metadata, c)
                  ELSE IF doc[c].tag = "files" THEN collect_files(st, file, metadata, c)
                  ELSE st
       IN  dir_children(st1, file, metadata, n, c + 1)

\* a faulty variant of collect_dir, where the overlay of a Dir element on the
\* path is collected as that of a selector is
collect_dir_collects(st, file, metadata, n) ==
  LET meta_element == doc[n]
      st0 == IF "path" \in DOMAIN meta_element.attrib
             THEN [st EXCEPT !.meta_path = Append(@, meta_element.attrib["path"])]
             ELSE st
      real_path == file.dir
      matched == is_prefix(st0.meta_path, real_path)
      st1 == Visit(st0, n, metadata, matched)
  IN  IF ~matched THEN st1
      ELSE LET st2 == process_metadata(st1, metadata, meta_element)
           IN  IF st2.err # "none" THEN st2
               ELSE dir_children([st2 EXCEPT !.collector = Append(@, st2.ret)],
                                 file, st2.ret, n, 1)

collect_dir(st, file, metadata, n) ==
  LET meta_element == doc[n]
      st0 == IF "path" \in DOMAIN meta_element.attrib
             THEN [st EXCEPT !.meta_path = Append(@, meta_element.attrib["path"])]
             ELSE st
      real_path == file.dir
      matched == is_prefix(st0.meta_path, real_path)
      st1 == Visit(st0, n, metadata, matched)
  IN  IF ~matched THEN st1
      ELSE LET st2 == process_metadata(st1, metadata, meta_element)
           IN  IF st2.err # "none" THEN st2
               ELSE dir_children(st2, file, st2.ret, n, 1)

\* ---------------------------------------------------------------- normalize

\* data = ChainMap(*reversed(collector)) is kept as the collector itself: the
\* map collected last is looked up first.

DictKeys(entries) == [i \in DOMAIN entries |-> entries[i].k]

\* iteration over a ChainMap: the keys of the map collected first, then the
\* new keys of each later map (collector[1..i])
RECURSIVE chain_keys(_, _, _)
chain_keys(st, collector, i) ==
  IF i = 0 THEN <<>>
  ELSE LET before == chain_keys(st, collector, i - 1)
           IsNew(k) == k \notin Range(before)
       IN  before \o SelectSeq(DictKeys(st.dicts[collector[i]]), IsNew)

\* a faulty variant of chain_get: the list of the map collected first among
\* those holding the key
chain_get_first(st, collector, key) ==
  LET i == CHOOSE i \in DOMAIN collector :
             /\ HasKey(st.dicts[collector[i]], key)
             /\ \A j \in DOMAIN collector :
                  j < i => ~HasKey(st.dicts[collector[j]], key)
      entries == st.dicts[collector[i]]
  IN  entries[KeyIndex(entries, key)].v

\* data[key]: the list of the map collected last among those holding the key
chain_get(st, collector, key) ==
  LET i == CHOOSE i \in DOMAIN collector :
             /\ HasKey(st.dicts[collector[i]], key)
             /\ \A j \in DOMAIN collector :
                  j > i => ~HasKey(st.dicts[collector[j]], key)
      entries == st.dicts[collector[i]]
  IN  entries[KeyIndex(entries, key)].v

\* a faulty variant of split_parts, which keeps the empty parts
split_parts_all(value, splitter) ==
  LET parts == split(value, splitter)
  IN  [i \in DOMAIN parts |-> strip(parts[i])]

\* part.strip() for part in value.split(splitter) if part.strip()
split_parts(value, splitter) ==
  LET parts == split(value, splitter)
      stripped == [i \in DOMAIN parts |-> strip(parts[i])]
      NonEmpty(part) == part # <<>>
  IN  SelectSeq(stripped, NonEmpty)

RECURSIVE flatten_split(_, _)
flatten_split(values, splitter) ==
  IF values = <<>> THEN <<>>
  ELSE split_parts(Head(values), splitter) \o flatten_split(Tail(values), splitter)

\* a faulty variant of transform_key, which looks the key up in joiners first
transform_key_joins_first(st, result, collector, key, joiners, splitters) ==
  LET lst == chain_get(st, collector, key)
      values == st.lists[lst]
  IN  IF key \in DOMAIN joiners
      THEN IF PyNone \in Range(values) THEN Raise(st, "TypeError")
           ELSE StoreList(st, result, key, <<join(values, joiners[key])>>)
      ELSE IF key \in DOMAIN splitters
      THEN IF values # <<>> /\ values[1] # PyNone /\ splitters[key] = <<>>
           THEN Raise(st, "ValueError")
           ELSE IF PyNone \in Range(values) THEN Raise(st, "AttributeError")
           ELSE StoreList(st, result, key, flatten_split(values, splitters[key]))
      ELSE [st EXCEPT !.dicts[result] = SetItem(st.dicts[result], key, lst)]

\* one turn of the loop of transform_dict_values: result[key] = ...
\* value.split(splitter) raises AttributeError for a value None and ValueError
\* for an empty separator, whichever the first value meets
transform_key(st, result, collector, key, joiners, splitters) ==
  LET lst == chain_get(st, collector, key)
      values == st.lists[lst]
  IN  IF key \in DOMAIN splitters
      THEN IF values # <<>> /\ values[1] # PyNone /\ splitters[key] = <<>>
           THEN Raise(st, "ValueError")
           ELSE IF PyNone \in Range(values) THEN Raise(st, "AttributeError")
           ELSE StoreList(st, result, key, flatten_split(values, splitters[key]))
      ELSE IF key \in DOMAIN joiners
      THEN IF PyNone \in Range(values) THEN Raise(st, "TypeError")
           ELSE StoreList(st, result, key, <<join(values, joiners[key])>>)
      ELSE [st EXCEPT !.dicts[result] = SetItem(@, key, lst)]

RECURSIVE transform_keys(_, _, _, _, _, _, _)
transform_keys(st, result, collector, keys, i, joiners, splitters) ==
  IF i > Len(keys) \/ st.err # "none" THEN st
  ELSE transform_keys(transform_key(st, result, collector, keys[i], joiners, splitters),
                      result, collector, keys, i + 1, joiners, splitters)

\* transform_dict_values(data, joiners, splitters); ret is the new dict
transform_dict_values(st, collector, joiners, splitters) ==
  LET st0 == NewDict(st, <<>>)
      result == st0.ret
      st1 == transform_keys(st0, result, collector,
                            chain_keys(st, collector, Len(collector)), 1,
                            joiners, splitters)
  IN  IF st1.err # "none" THEN st1 ELSE [st1 EXCEPT !.ret = result]

\* ------------------------------------------------------------ parse_metadata

\* a faulty variant of CallStart, where link_collector is one list kept
\* between the calls
CallStart_shared(h) ==
  [dicts |-> h.dicts, lists |-> h.lists,
   linklists |-> IF h.linklists = <<>> THEN <<<<>>>> ELSE h.linklists,
   meta_path |-> <<>>, collector |-> <<>>, link_collector |-> 1,
   visits |-> <<>>, overlays |-> <<>>, err |-> "none", ret |-> 0]

\* the state a call starts in: collector = [], link_collector = [] (a new
\* list object), and the [] it passes to collect_dir as meta_path
CallStart(h) ==
  [dicts |-> h.dicts, lists |-> h.lists, linklists |-> Append(h.linklists, <<>>),
   meta_path |-> <<>>, collector |-> <<>>, link_collector |-> Len(h.linklists) + 1,
   visits |-> <<>>, overlays |-> <<>>, err |-> "none", ret |-> 0]

\* parse_metadata(xml_file, path, root_path) for the document `doc`; file is
\* path relative to root_path: [dir, name]
parse_metadata(h, file) ==
  LET st0 == NewDict(CallStart(h), <<>>)
      st1 == collect_dir(st0, file, st0.ret, 1)
  IN  IF st1.err # "none" THEN st1
      ELSE transform_dict_values(st1, st1.collector, Joiners, Splitters)

\* ------------------------------------------------------------ rule documents

Element(tag, parent, attrib, blocks, links) ==
  [tag |-> tag, parent |-> parent, attrib |-> attrib, blocks |-> blocks,
   links |-> links]

NoAttrib == [a \in {} |-> <<>>]

\* file names and patterns, one character a piece
NameAT == <<"a", ".", "t">>
NameBJ == <<"b", ".", "j">>
PatternT == <<"*", ".", "t">>
NameReadme == <<"r", "e", "a", "d", "m", "e", ".", "t", "x", "t">>
PatternTxt == <<"*", ".", "t", "x", "t">>

\* Shapes.  Every tree of at most MaxNodes elements whose elements below the
\* root are Dir elements with path a or b and Files selectors with every use
\* of filename, pattern and recursive; element i adds its own index to
\* dc:title, so that a result shows which elements contributed.
DirAttribs == {[path |-> "a"], [path |-> "b"]}

FilesAttribs ==
  { NoAttrib,
    [pattern |-> PatternT],
    [pattern |-> PatternT, recursive |-> "true"],
    [pattern |-> PatternT, recursive |-> "false"],
    [filename |-> NameAT, pattern |-> PatternT],
    [filename |-> NameAT, recursive |-> "true"],
    [filename |-> NameAT, recursive |-> "false"] }

Mark(i) == "title.add" :> <<ToString(i)>>

RootOnly == <<Element("dir", 0, Mark(1), <<>>, <<>>)>>

\* the Dir elements still open after the last element of d: the last element
\* and its ancestors
RECURSIVE OpenDirs(_, _)
OpenDirs(d, n) ==
  IF n = 0 THEN {}
  ELSE (IF d[n].tag = "dir" THEN {n} ELSE {}) \cup OpenDirs(d, d[n].parent)

RECURSIVE ShapeDocs(_)
ShapeDocs(k) ==
  IF k = 1 THEN {RootOnly}
  ELSE LET smaller == ShapeDocs(k - 1)
           grown == { Append(d, Element(t[1], p, t[2] @@ Mark(k), <<>>, <<>>)) :
                        d \in {e \in smaller : Len(e) = k - 1},
                        p \in 1..(k - 1),
                        t \in ({"dir"} \X DirAttribs) \cup ({"files"} \X FilesAttribs) }
       IN  smaller \cup {d \in grown : d[k].parent \in OpenDirs(d, k - 1)}

\* Overlays.  One tree, root > Dir a > (Files *, Files * recursive), whose
\* three elements below the root each carry one of the operation profiles.
\* The values of element i end in i.
Child(tag, attrib, text, kids) ==
  [tag |-> tag, attrib |-> attrib, text |-> text, kids |-> kids]

Fragment(uri, prefix, local, text) ==
  [tag |-> [uri |-> uri, local |-> local], prefix |-> prefix, text |-> text]

Link(tag, attrib, blocks) == [tag |-> tag, attrib |-> attrib, blocks |-> blocks]

DcUri == "http://purl.org/dc/elements/1.1/"

Val(s, i) == <<s \o ToString(i)>>

ProfileNames ==
  {"none", "set", "add", "setadd", "creator", "descr", "xset", "xadd", "fset",
   "fadd", "fdescr", "fother", "bogus", "xsetnone", "xaddnone", "links", "blocks"}

Ops(attrib, blocks, links) == [attrib |-> attrib, blocks |-> blocks, links |-> links]

Profile(name, i) ==
  CASE name = "none" -> Ops(NoAttrib, <<>>, <<>>)
    [] name = "set" -> Ops("title" :> Val("S", i), <<>>, <<>>)
    [] name = "add" -> Ops("title.add" :> Val("A", i), <<>>, <<>>)
    [] name = "setadd" ->
         Ops(("title" :> Val("S", i)) @@ ("title.add" :> Val("A", i)), <<>>, <<>>)
    [] name = "creator" ->
         Ops("creator" :> (Val("c", i) \o <<",", " ">> \o Val("d", i)), <<>>, <<>>)
    [] name = "descr" -> Ops("description.add" :> Val("D", i), <<>>, <<>>)
    [] name = "xset" ->
         Ops(NoAttrib,
             <<<<Child("set", [type |-> "dc:title"], <<" ">> \o Val("T", i) \o <<" ">>,
                       <<>>)>>>>, <<>>)
    [] name = "xadd" ->
         Ops(NoAttrib,
             <<<<Child("add", [type |-> "dc:title"], <<" ">> \o Val("T", i) \o <<" ">>,
                       <<>>)>>>>, <<>>)
    [] name = "fset" ->
         Ops(NoAttrib,
             <<<<Child("set", NoAttrib, PyNone,
                       <<Fragment(DcUri, "dc", "creator",
                                  Val("p", i) \o <<",">> \o Val("q", i))>>)>>>>, <<>>)
    [] name = "fadd" ->
         Ops(NoAttrib,
             <<<<Child("add", NoAttrib, PyNone,
                       <<Fragment(DcUri, "dc", "creator",
                                  Val("p", i) \o <<",">> \o Val("q", i))>>)>>>>, <<>>)
    [] name = "fdescr" ->
         Ops(NoAttrib,
             <<<<Child("add", NoAttrib, PyNone,
                       <<Fragment(DcUri, "dc", "description", Val("f", i))>>)>>>>, <<>>)
    [] name = "fother" ->
         Ops(NoAttrib,
             <<<<Child("add", NoAttrib, PyNone,
                       <<Fragment("urn:x", "x", "note", <<>>)>>),
                 Child("add", NoAttrib, PyNone,
                       <<Fragment("urn:x", "x", "note", Val("n", i))>>)>>>>, <<>>)
    [] name = "bogus" ->
         Ops(NoAttrib, <<<<Child("remove", [type |-> "dc:title"], PyNone, <<>>)>>>>, <<>>)
    [] name = "xsetnone" ->
         Ops(NoAttrib, <<<<Child("set", [type |-> "dc:title"], PyNone, <<>>)>>>>, <<>>)
    [] name = "xaddnone" ->
         Ops(NoAttrib, <<<<Child("add", [type |-> "dc:title"], PyNone, <<>>)>>>>, <<>>)
    [] name = "links" ->
         Ops("title.add" :> Val("A", i), <<>>,
             <<<<Link("link", ("type" :> "dcterms:source") @@ ("path" :> "*.src")
                                @@ ("title" :> Val("L", i)), <<>>),
                 Link("note", NoAttrib, <<>>),
                 Link("link", ("type" :> "dcterms:source") @@ ("path" :> "*.src"),
                      <<<<Child("add", [type |-> "dc:title"], Val("M", i), <<>>)>>>>)>>,
               <<Link("link", [type |-> "dcterms:relation"], <<>>)>>>>)
    [] name = "blocks" ->
         Ops(("title" :> Val("S", i)) @@ ("title.add" :> Val("A", i)),
             <<<<Child("add", [type |-> "dc:title"], Val("T", i), <<>>),
                 Child("set", [type |-> "dc:date"], Val("U", i), <<>>)>>,
               <<Child("set", [type |-> "dc:title"], Val("V", i), <<>>)>>>>, <<>>)

OverlayDoc(p2, p3, p4) ==
  << Element("dir", 0, NoAttrib, <<>>, <<>>),
     Element("dir", 1, [path |-> "a"] @@ Profile(p2, 2).attrib,
             Profile(p2, 2).blocks, Profile(p2, 2).links),
     Element("files", 2, Profile(p3, 3).attrib, Profile(p3, 3).blocks,
             Profile(p3, 3).links),
     Element("files", 2, [recursive |-> "true"] @@ Profile(p4, 4).attrib,
             Profile(p4, 4).blocks, Profile(p4, 4).links) >>

OverlayDocs ==
  {OverlayDoc(p2, p3, p4) : p2 \in ProfileNames, p3 \in ProfileNames, p4 \in ProfileNames}

\* The scenario of the specification: Dir doc sets the creator and holds a
\* selector of *.txt that adds a title.
ScenarioDoc ==
  << Element("dir", 0, NoAttrib, <<>>, <<>>),
     Element("dir", 1, [path |-> "doc", creator |-> <<"Lib">>], <<>>, <<>>),
     Element("files", 2, ("pattern" :> PatternTxt) @@ ("title.add" :> <<"Note">>),
             <<>>, <<>>) >>

\* Unknown elements.  The root holds an element that is neither dir nor files,
\* with a selector inside it, and then a selector of its own.
UnknownDoc(t) ==
  << Element("dir", 0, Mark(1), <<>>, <<>>),
     Element("note", 1, [path |-> "a"] @@ Mark(2), <<>>, <<>>),
     Element("files", 2, Mark(3), <<>>, <<>>),
     Element("files", 1, t @@ Mark(4), <<>>, <<>>) >>

UnknownDocs == {UnknownDoc(t) : t \in FilesAttribs}

\* Selective documents.  The root sets a title, Dir a carries one of the
\* operation profiles, and its only selector, of *.t and with links, does not
\* match every file of the directory.
SelectiveDoc(p2) ==
  << Element("dir", 0, Profile("set", 1).attrib, <<>>, <<>>),
     Element("dir", 1, [path |-> "a"] @@ Profile(p2, 2).attrib,
             Profile(p2, 2).blocks, Profile(p2, 2).links),
     Element("files", 2, [pattern |-> PatternT] @@ Profile("links", 3).attrib,
             <<>>, Profile("links", 3).links) >>

SelectiveDocs == {SelectiveDoc(p2) : p2 \in ProfileNames}

\* the most elements of a document of ShapeDocs
MaxNodes == 4

Docs ==
  ShapeDocs(MaxNodes) \cup OverlayDocs \cup UnknownDocs \cup SelectiveDocs
    \cup {ScenarioDoc}

\* the files resolved: path relative to root_path, as directory and name
Targets ==
  ([dir : {<<>>, <<"a">>, <<"b">>, <<"a", "b">>, <<"a", "a">>, <<"a", "b", "a">>},
    name : {NameAT, NameBJ}])
  \cup [dir : {<<"doc">>, <<"other">>}, name : {NameReadme}]

\* -------------------------------------------------------------- the machine

\* what a call returned: the link list and the normalized map, or the
\* exception it raised
Returned(st, file) ==
  [file |-> file, err |-> st.err,
   links |-> IF st.err = "none" THEN st.link_collector ELSE 0,
   metadata |-> IF st.err = "none" THEN st.ret ELSE 0]

NoTrace == [visits |-> <<>>, overlays |-> <<>>, collector |-> <<>>]

Init ==
  /\ doc \in Docs
  /\ heap = EmptyHeap
  /\ history = <<>>
  /\ trace = NoTrace

\* one call parse_metadata(xml_file, path, root_path)
Resolve(file) ==
  \E st \in {parse_metadata(heap, file)} :
      /\ heap' = [dicts |-> st.dicts, lists |-> st.lists, linklists |-> st.linklists]
      /\ history' = Append(history, Returned(st, file))
      /\ trace' = [visits |-> st.visits, overlays |-> st.overlays,
                   collector |-> st.collector]
      /\ UNCHANGED doc

\* a behaviour resolves one file; calls are independent of each other, which
\* SpecCalls checks
Next == history = <<>> /\ \E file \in Targets : Resolve(file)

Spec == Init /\ [][Next]_vars

\* Calls in sequence: a behaviour resolves up to MaxCalls files of CallTargets
\* against one of the smaller documents.
CallDocs ==
  ShapeDocs(MaxNodes - 1)
    \cup {OverlayDoc("add", p3, "links") : p3 \in ProfileNames}

CallTargets ==
  { [dir |-> <<>>, name |-> NameAT], [dir |-> <<"a">>, name |-> NameAT],
    [dir |-> <<"a", "b">>, name |-> NameAT], [dir |-> <<"b">>, name |-> NameBJ] }

InitCalls ==
  /\ doc \in CallDocs
  /\ heap = EmptyHeap
  /\ history = <<>>
  /\ trace = NoTrace

NextCalls == Len(history) < MaxCalls /\ \E file \in CallTargets : Resolve(file)

SpecCalls == InitCalls /\ [][NextCalls]_vars

\* Normalization on its own: a behaviour calls transform_dict_values on a map
\* of the keys K and L with joiners and splitters of NormConfigs, and then may
\* split what it joined.  heap holds the maps and lists, trace.collector the
\* map that is the data of the next call, history what the calls returned.
NormChars == {"a", ",", " "}

Strings(n) == UNION {[1..k -> NormChars] : k \in 0..n}

\* the lists of values of a size up to n
RECURSIVE ValueLists(_)
ValueLists(n) ==
  {<<>>} \cup
    (IF n = 0 THEN {}
     ELSE UNION {{<<v>> \o l : l \in ValueLists(n - 1 - Len(v))} : v \in Strings(n - 1)})

OtherValues == << <<"b">>, <<"a">>, <<"b">> >>

\* the maps as values: K alone, K and L in either order, L alone, no key
NormData ==
  {<<>>, <<[k |-> "L", v |-> OtherValues]>>}
    \cup UNION {{ <<[k |-> "K", v |-> l]>>,
                  <<[k |-> "K", v |-> l], [k |-> "L", v |-> OtherValues]>>,
                  <<[k |-> "L", v |-> OtherValues], [k |-> "K", v |-> l]>> } :
                l \in ValueLists(MaxSize)}

\* the heap that holds one map of the given value: dict 1, a list for each key
HeapOf(value) ==
  [dicts |-> <<[i \in DOMAIN value |-> [k |-> value[i].k, v |-> i]]>>,
   lists |-> [i \in DOMAIN value |-> value[i].v],
   linklists |-> <<>>]

NoKeys == [k \in {} |-> <<>>]

JoinDelims == {<<>>, <<",">>, <<",", ",">>, <<",", " ">>}

SplitDelims == {<<",">>, <<",", ",">>, <<",", " ">>}

NormJoiners ==
  {NoKeys, "L" :> <<"+">>, ("K" :> <<",">>) @@ ("L" :> <<"+">>)}
    \cup {"K" :> d : d \in JoinDelims}

NormSplitters == {NoKeys, "L" :> <<",">>} \cup {"K" :> d : d \in SplitDelims}

NormConfigs == [joiners : NormJoiners, splitters : NormSplitters]

\* the state of a call that is given the objects of h
HeapState(h) ==
  [dicts |-> h.dicts, lists |-> h.lists, linklists |-> h.linklists,
   meta_path |-> <<>>, collector |-> <<>>, link_collector |-> 0,
   visits |-> <<>>, overlays |-> <<>>, err |-> "none", ret |-> 0]

InitNorm ==
  /\ doc = <<>>
  /\ \E value \in NormData : heap = HeapOf(value)
  /\ history = <<>>
  /\ trace = [NoTrace EXCEPT !.collector = <<1>>]

\* one call transform_dict_values(data, joiners, splitters)
Transform(joiners, splitters) ==
  \E st \in {transform_dict_values(HeapState(heap), trace.collector, joiners, splitters)} :
      /\ heap' = [dicts |-> st.dicts, lists |-> st.lists, linklists |-> st.linklists]
      /\ history' = Append(history, [joiners |-> joiners, splitters |-> splitters,
                                     data |-> trace.collector[1], err |-> st.err,
                                     result |-> IF st.err = "none" THEN st.ret ELSE 0])
      /\ trace' = IF st.err = "none" THEN [trace EXCEPT !.collector = <<st.ret>>]
                  ELSE trace
      /\ UNCHANGED doc

Normalize == history = <<>> /\ \E c \in NormConfigs : Transform(c.joiners, c.splitters)

\* the result of a call that joined K is split on the delimiter it was joined
\* with
SplitBack ==
  /\ Len(history) = 1
  /\ history[1].err = "none"
  /\ history[1].splitters = NoKeys
  /\ DOMAIN history[1].joiners = {"K"}
  /\ history[1].joiners["K"] \in SplitDelims
  /\ Transform(NoKeys, "K" :> history[1].joiners["K"])

NextNorm == Normalize \/ SplitBack

SpecNorm == InitNorm /\ [][NextNorm]_vars

\* ---------------------------------------------------------------- rdftools

\* A key of the map given to meta_to_rdf is the sequence of its pieces, every
\* colon a piece of its own; a graph is the set of its triples.

\* prefix_map: the namespace of each known prefix
prefix_map ==
  [p \in {"dc", "dcterms", "rdf", "spdx", "dcat"} |->
     CASE p = "dc" -> "http://purl.org/dc/elements/1.1/"
       [] p = "dcterms" -> "http://purl.org/dc/terms/"
       [] p = "rdf" -> "http://www.w3.org/1999/02/22-rdf-syntax-ns#"
       [] p = "spdx" -> "http://spdx.org/rdf/terms#"
       [] p = "dcat" -> "http://www.w3.org/ns/dcat#"]

\* rdflib's DC, DCTERMS, RDF and DCAT are vocabularies with a list of terms:
\* all fifteen of DC, and of the others the terms among the names used here.
\* Namespace("http://spdx.org/rdf/terms#") has no list.
VocabularyTerms ==
  [p \in {"dc", "dcterms", "rdf", "dcat"} |->
     CASE p = "dc" -> {"contributor", "coverage", "creator", "date", "description",
                       "format", "identifier", "language", "publisher", "relation",
                       "rights", "source", "subject", "title", "type"}
       [] p = "dcterms" -> {"title", "creator", "source", "relation", "license"}
       [] p = "rdf" -> {"type", "value", "subject", "predicate", "object", "first",
                        "rest", "nil"}
       [] p = "dcat" -> {"keyword", "theme", "distribution"}]

\* The installed rdflib decides what indexing a vocabulary with a name that is
\* no term of it does.  RDF raises in every release; DC, DCTERMS and DCAT are
\* open namespaces before release 6 and raise from release 6 on.
Vocabularies == {"open", "closed"}

\* the characters of the pieces in one string
RECURSIVE text_of(_)
text_of(pieces) == IF pieces = <<>> THEN "" ELSE Head(pieces) \o text_of(Tail(pieces))

\* full_key.startswith("mfterms:")
is_mfterms(full_key) ==
  Len(full_key) >= 2 /\ full_key[1] = "mfterms" /\ full_key[2] = ":"

\* ":" in full_key
has_colon(full_key) == \E i \in DOMAIN full_key : full_key[i] = ":"

\* full_key.split(":", 1): the text before the first colon and the text
\* after it
split_key(full_key) ==
  LET i == CHOOSE j \in DOMAIN full_key :
             full_key[j] = ":" /\ \A h \in 1..(j - 1) : full_key[h] # ":"
  IN  [prefix |-> text_of(SubSeq(full_key, 1, i - 1)),
       local |-> text_of(SubSeq(full_key, i + 1, Len(full_key)))]

\* predicate_ns[local] can raise: the term is not in the vocabulary
term_missing(prefix, local, vocabularies) ==
  /\ prefix \in DOMAIN VocabularyTerms
  /\ local \notin VocabularyTerms[prefix]
  /\ prefix = "rdf" \/ vocabularies = "closed"

\* value.startswith("__xml__:")
starts_with_marker(value) == Len(value) > 0 /\ <<value[1]>> = XmlMarker

\* the fragments the values of the maps embed
RdfFragments ==
  { Fragment(DcUri, "dc", "creator", <<"p">>),
    Fragment("urn:x", "x", "note", <<>>) }

\* ET.fromstring(fragment): the element that is serialized as the text
fromstring(text) == CHOOSE frag \in RdfFragments : tostring(frag) = text

\* tag_to_uri for a tag {uri}local
tag_to_uri(tag) == tag.uri \o tag.local

\* addSubnode for a fragment without child elements: etree_to_rdf links a new
\* blank node to the subject by the tag of the root and types it by the tag
addSubnode(gs, subject, fragment) ==
  LET root == fromstring(fragment)
      this_node == [bnode |-> gs.nodes + 1]
  IN  [gs EXCEPT !.nodes = @ + 1,
                 !.g = @ \cup {[s |-> subject, p |-> tag_to_uri(root.tag), o |-> this_node],
                               [s |-> this_node,
                                p |-> prefix_map["rdf"] \o "type",
                                o |-> [uri |-> tag_to_uri(root.tag)]]}]

\* for value in values: a literal of the subject, or the node of a fragment
RECURSIVE add_values(_, _, _, _, _)
add_values(gs, subject, predicate, values, i) ==
  IF i > Len(values) THEN gs
  ELSE add_values(
         IF ~starts_with_marker(values[i])
         THEN [gs EXCEPT !.g = @ \cup {[s |-> subject, p |-> predicate,
                                        o |-> [literal |-> values[i]]]}]
         ELSE addSubnode(gs, subject, Tail(values[i])),
         subject, predicate, values, i + 1)

\* one turn of the loop of meta_to_rdf over data.items()
add_key(gs, subject, full_key, values, vocabularies) ==
  IF is_mfterms(full_key) THEN gs
  ELSE IF ~has_colon(full_key) THEN gs
  ELSE LET prefix == split_key(full_key).prefix
           local == split_key(full_key).local
       IN  IF prefix \notin DOMAIN prefix_map THEN gs
           ELSE IF term_missing(prefix, local, vocabularies)
           THEN [gs EXCEPT !.err = IF vocabularies = "closed" THEN "AttributeError"
                                   ELSE "KeyError"]
           ELSE add_values(gs, subject, prefix_map[prefix] \o local, values, 1)

RECURSIVE add_keys(_, _, _, _, _)
add_keys(gs, subject, data, i, vocabularies) ==
  IF i > Len(data) \/ gs.err # "none" THEN gs
  ELSE add_keys(add_key(gs, subject, data[i].k, data[i].v, vocabularies),
                subject, data, i + 1, vocabularies)

\* meta_to_rdf(data, links, subject_uri); links is not used
meta_to_rdf(data, subject_uri, vocabularies) ==
  add_keys([g |-> {}, nodes |-> 0, err |-> "none"], [uri |-> subject_uri], data, 1,
           vocabularies)

\* The export on its own: a behaviour calls meta_to_rdf on a map of up to
\* MaxKeys of the keys RdfKeys.  heap holds the map, history what the call
\* returned.
RdfKeys ==
  { <<"dc", ":", "title">>, <<"dc", ":", "foo">>, <<"dcterms", ":", "source">>,
    <<"rdf", ":", "value">>, <<"rdf", ":", "foo">>, <<"spdx", ":", "checksum">>,
    <<"mfterms", ":", "prefix">>, <<"title">>, <<"x", ":", "note">>,
    <<"{urn", ":", "x}note">> }

RdfValueLists ==
  { <<>>, << <<"v">> >>, << <<"v">>, <<"v">> >>, << <<"v">>, <<"w">>, <<>> >>,
    << XmlMarker \o tostring(Fragment(DcUri, "dc", "creator", <<"p">>)) >>,
    << <<"v">>, XmlMarker \o tostring(Fragment("urn:x", "x", "note", <<>>)),
       XmlMarker \o tostring(Fragment("urn:x", "x", "note", <<>>)) >> }

\* the maps of up to n keys, as values
RECURSIVE RdfData(_)
RdfData(n) ==
  IF n = 0 THEN {<<>>}
  ELSE LET smaller == RdfData(n - 1)
       IN  smaller \cup
             { Append(d, [k |-> key, v |-> values]) :
                 d \in {e \in smaller : Len(e) = n - 1},
                 key \in RdfKeys, values \in RdfValueLists }

SubjectUri == "urn:s"

InitRdf ==
  /\ doc = <<>>
  /\ \E value \in {d \in RdfData(MaxKeys) :
                     \A i, j \in DOMAIN d : i # j => d[i].k # d[j].k} :
       heap = HeapOf(value)
  /\ history = <<>>
  /\ trace = [NoTrace EXCEPT !.collector = <<1>>]

\* one call meta_to_rdf(data, links, subject_uri) with the rdflib installed
ToRdf(vocabularies) ==
  /\ history = <<>>
  /\ \E gs \in {meta_to_rdf(DictValue(heap, trace.collector[1]), SubjectUri, vocabularies)} :
       history' = Append(history, [vocabularies |-> vocabularies, err |-> gs.err,
                                   graph |-> IF gs.err = "none" THEN gs.g ELSE {}])
  /\ UNCHANGED <<doc, heap, trace>>

NextRdf == \E vocabularies \in Vocabularies : ToRdf(vocabularies)

SpecRdf == InitRdf /\ [][NextRdf]_vars

\* ----------------------------------------------------------------- db_tool

\* A session is the rows it holds by primary key (the persistent objects with
\* the values their attributes have now), the instances added and not flushed
\* yet, and the ChangeLog entries added, in the order of their addition.  A
\* session made by get_session flushes before every query (autoflush), one
\* made by initialize_database does not.  A flush that finds a primary key
\* twice fails, and the session is of no use after that.
\*
\* In SpecUpsert `heap` is the session and `history` the calls made.

\* the members of ConflictAction
ConflictAction == {"ignore", "warning", "strict", "update"}

\* the column attributes of FileRecord in the order of their declaration, the
\* primary key first; local_path, metadata_data and linkdata are columns like
\* digest and are left out
attr_names == <<"ark_base_name", "digest", "created", "updated">>

_pk_identity(instance) == <<instance["ark_base_name"]>>

\* str() of a value of a column, and of the tuple of a primary key
str(value) == ToString(value)

str_tuple(pk) == "(" \o ToString(pk[1]) \o ",)"

\* the entry that log_change adds to the session
log_change(session, object_id, attribute, operation, old_value, new_value, severity) ==
  [session EXCEPT !.log = Append(@, [object_id |-> object_id, attribute |-> attribute,
                                     operation |-> operation, severity |-> severity,
                                     old_value |-> old_value, new_value |-> new_value])]

\* session.flush(): the pending instances become rows
session_flush(session) ==
  LET pending == session.pending
      clash == \/ \E i \in DOMAIN pending : _pk_identity(pending[i]) \in DOMAIN session.rows
               \/ \E i, j \in DOMAIN pending :
                    i # j /\ _pk_identity(pending[i]) = _pk_identity(pending[j])
  IN  IF clash THEN [session EXCEPT !.failed = TRUE]
      ELSE [session EXCEPT
              !.rows = [pk \in DOMAIN session.rows
                                 \cup {_pk_identity(pending[i]) : i \in DOMAIN pending} |->
                          IF pk \in DOMAIN session.rows THEN session.rows[pk]
                          ELSE LET i == CHOOSE j \in DOMAIN pending :
                                              _pk_identity(pending[j]) = pk
                               IN  pending[i]],
              !.pending = <<>>]

\* faulty variant of resolve_columns: a column of policy IGNORE is overwritten
RECURSIVE resolve_columns_overwrite(_, _, _, _, _, _)
resolve_columns_overwrite(r, pk, instance, policy, default_policy, i) ==
  IF i > Len(attr_names) THEN r
  ELSE
    LET name == attr_names[i]
        old == r.session.rows[pk][name]
        new == instance[name]
        action == IF name \in DOMAIN policy THEN policy[name] ELSE default_policy
        logged(severity) ==
          log_change(r.session, str_tuple(pk), name, "UPDATED", str(old), str(new), severity)
        set(session) == [session EXCEPT !.rows[pk][name] = new]
        next ==
          CASE old = new -> r
            [] old # new /\ action = "strict" -> [r EXCEPT !.session = logged("ERROR")]
            [] old # new /\ action = "warning" ->
                 [r EXCEPT !.session = set(logged("WARNING")), !.updated = TRUE]
            [] old # new /\ action \in {"update", "ignore"} ->
                 [r EXCEPT !.session = set(r.session), !.updated = TRUE]
    IN  resolve_columns_overwrite(next, pk, instance, policy, default_policy, i + 1)

\* faulty variant of policy_get: a column not named in the policy is updated
policy_get_update(policy, name, default_policy) ==
  IF name \in DOMAIN policy THEN policy[name] ELSE "update"

\* policy.get(name, default_policy)
policy_get(policy, name, default_policy) ==
  IF name \in DOMAIN policy THEN policy[name] ELSE default_policy

\* the loop over the differing columns of upsert_with_policy, from column i on;
\* r is the session, the row found and the flag `updated`
RECURSIVE resolve_columns(_, _, _, _, _, _)
resolve_columns(r, pk, instance, policy, default_policy, i) ==
  IF i > Len(attr_names) THEN r
  ELSE
    LET name == attr_names[i]
        old == r.session.rows[pk][name]
        new == instance[name]
        action == policy_get(policy, name, default_policy)
        logged(severity) ==
          log_change(r.session, str_tuple(pk), name, "UPDATED", str(old), str(new), severity)
        set(session) == [session EXCEPT !.rows[pk][name] = new]
        next ==
          CASE old = new -> r
            [] old # new /\ action = "strict" -> [r EXCEPT !.session = logged("ERROR")]
            [] old # new /\ action = "ignore" -> r
            [] old # new /\ action = "warning" ->
                 [r EXCEPT !.session = set(logged("WARNING")), !.updated = TRUE]
            [] old # new /\ action = "update" ->
                 [r EXCEPT !.session = set(r.session), !.updated = TRUE]
    IN  resolve_columns(next, pk, instance, policy, default_policy, i + 1)

\* upsert_with_policy(session, instance, policy, default_policy=...): the
\* session after the call, the status returned and the exception raised
upsert_with_policy(session, instance, policy, default_policy) ==
  LET pk == _pk_identity(instance)
      queried == IF session.autoflush THEN session_flush(session) ELSE session
  IN  IF queried.failed
      THEN [session |-> queried, status |-> "", err |-> "IntegrityError"]
      ELSE IF pk \notin DOMAIN queried.rows
      THEN [session |-> log_change([queried EXCEPT !.pending = Append(@, instance)],
                                   str_tuple(pk), "<None>", "INSERTED", "<None>", "<None>",
                                   "INFO"),
            status |-> "inserted", err |-> "none"]
      ELSE IF \A i \in DOMAIN attr_names :
                queried.rows[pk][attr_names[i]] = instance[attr_names[i]]
      THEN [session |-> queried, status |-> "unchanged", err |-> "none"]
      ELSE LET r == resolve_columns([session |-> queried, updated |-> FALSE],
                                    pk, instance, policy, default_policy, 1)
           IN  [session |-> r.session,
                status |-> IF r.updated THEN "updated" ELSE "unchanged",
                err |-> "none"]

\* the policy and the default policy of FileRecord.insert
insert_policy == ("created" :> "ignore") @@ ("updated" :> "update")

insert_default_policy == "warning"

\* the instances: every call is for the record of one primary key, with a
\* value for every other column
PrimaryKeys == {7}

ColumnValues == {0, 1}

Instances ==
  {i \in [Range(attr_names) -> PrimaryKeys \cup ColumnValues] :
     /\ i["ark_base_name"] \in PrimaryKeys
     /\ \A c \in Range(attr_names) \ {"ark_base_name"} : i[c] \in ColumnValues}

NoPolicy == [c \in {} |-> "update"]

\* the policies of the calls, each with its default policy: that of
\* FileRecord.insert, the defaults of the function, and policies that give
\* every column every action
UpsertConfigs ==
  {[policy |-> insert_policy, default_policy |-> insert_default_policy],
   [policy |-> NoPolicy, default_policy |-> "strict"],
   [policy |-> NoPolicy, default_policy |-> "update"],
   [policy |-> ("digest" :> "strict") @@ ("created" :> "warning"), default_policy |-> "update"],
   [policy |-> ("digest" :> "ignore") @@ ("updated" :> "strict"), default_policy |-> "ignore"],
   [policy |-> ("digest" :> "update") @@ ("created" :> "strict") @@ ("updated" :> "ignore"),
    default_policy |-> "warning"]}

NoRows == [pk \in {} |-> <<>>]

InitUpsert ==
  /\ doc = <<>>
  /\ \E autoflush \in BOOLEAN :
       heap = [rows |-> NoRows, pending |-> <<>>, log |-> <<>>,
               autoflush |-> autoflush, failed |-> FALSE]
  /\ history = <<>>
  /\ trace = NoTrace

\* one call upsert_with_policy(session, instance, policy, default_policy=...)
Upsert(instance, policy, default_policy) ==
  /\ ~heap.failed
  /\ Len(history) < MaxUpserts
  /\ \E r \in {upsert_with_policy(heap, instance, policy, default_policy)} :
       /\ heap' = r.session
       /\ history' = Append(history, [instance |-> instance, policy |-> policy,
                                      default_policy |-> default_policy,
                                      before |-> heap, after |-> r.session,
                                      status |-> r.status, err |-> r.err])
  /\ UNCHANGED <<doc, trace>>

\* session.commit() of the caller
Commit ==
  /\ ~heap.failed
  /\ heap.pending # <<>>
  /\ heap' = session_flush(heap)
  /\ UNCHANGED <<doc, history, trace>>

NextUpsert ==
  \/ \E instance \in Instances, c \in UpsertConfigs :
       Upsert(instance, c.policy, c.default_policy)
  \/ Commit

SpecUpsert == InitUpsert /\ [][NextUpsert]_vars

\* ------------------------------------------------------------------ fntrans

\* A character is its code point, a text the sequence of its characters and
\* a bcode the sequence of its letters.  In SpecCode `heap` is the text given
\* to bcode and `history` holds the result of bcode and then that of bdecode.

\* the code points of the characters of `alphabet`
alphabet ==
  <<97, 98, 99, 100, 101, 102, 103, 104, 105, 106, 45, 108, 109, 110, 111,
    112, 113, 114, 115, 116, 117, 118, 119, 120, 121, 122, 65, 66, 67, 68, 69,
    70, 71, 72, 73, 74, 46, 76, 77, 78, 79, 80, 95, 82, 83, 84, 85, 86, 87,
    88, 89, 90, 48, 49, 50, 51, 52, 53, 54, 55, 56, 57>>

\* the code points of the characters of `second_alphabet`
second_alphabet ==
  <<32, 33, 34, 35, 36, 37, 38, 39, 40, 41, 42, 43, 44, 107, 75, 47, 58, 59,
    60, 61, 62, 63, 64, 91, 92, 93, 94, 81, 96, 123, 124, 125, 126, 160, 161,
    162, 163, 164, 165, 166, 167, 168, 169, 170, 171, 172, 174, 175, 176, 177,
    178, 179, 180, 181, 182, 183, 184, 185, 186, 187, 188, 189, 190, 191, 192,
    193, 194, 195, 196, 197, 198, 199, 200, 201, 202, 203, 204, 205, 206, 207,
    208, 209, 210, 211, 212, 213, 214, 215, 216, 217, 218, 219, 220, 221, 222,
    223, 224, 225, 226, 227, 228, 229, 230, 231, 232, 233, 234, 235, 236, 237,
    238, 239, 240, 241, 242, 243, 244, 245, 246, 247, 248, 249, 250, 251, 252,
    253, 254, 255, 256, 257, 258, 259, 260, 261, 262, 263, 264, 265, 266, 267,
    268, 269, 270, 271, 272, 273, 274, 275, 276, 277, 278, 279, 280, 281, 282,
    283, 284, 285, 286, 287, 288, 289, 290, 291, 292, 293, 294, 295, 296, 297,
    298, 299, 300, 301, 302, 303, 304, 305, 306, 307, 308, 309, 310, 311, 312,
    313, 314, 315, 316, 317, 318, 319, 320, 321, 322, 323, 324, 325, 326, 327,
    328, 329, 330, 331, 332, 333, 334, 335, 336, 337, 338, 339, 340, 341, 342,
    343, 344, 345, 346, 347, 348, 349, 350, 351, 352, 353, 354, 355, 356, 357,
    358, 359, 360, 361, 362, 363, 364, 365, 366, 367, 368, 369, 370, 371, 372,
    373, 374, 375, 376, 377, 378, 379, 380, 381, 382>>

betabet ==
  <<"b", "c", "d", "f", "g", "h", "j", "k", "m", "p", "r", "s", "t", "v", "x",
    "z">>

\* s.index(c) of a character that s contains, and `c in s`
index(s, c) == (CHOOSE i \in DOMAIN s : s[i] = c /\ \A j \in 1..(i - 1) : s[j] # c) - 1

contains(s, c) == \E i \in DOMAIN s : s[i] = c

\* 1 << n
RECURSIVE shl1(_)
shl1(n) == IF n = 0 THEN 1 ELSE 2 * shl1(n - 1)

\* a | b
RECURSIVE bit_or(_, _)
bit_or(a, b) ==
  IF a = 0 THEN b
  ELSE IF b = 0 THEN a
  ELSE (IF a % 2 = 1 \/ b % 2 = 1 THEN 1 ELSE 0) + 2 * bit_or(a \div 2, b \div 2)

\* BitWriter(): the writer is its bit_buffer, bit_count and output_bytes
BitWriter == [bit_buffer |-> 0, bit_count |-> 0, output_bytes |-> <<>>]

\* the while loop of BitWriter.write_bits
RECURSIVE write_bytes(_)
write_bytes(w) ==
  IF w.bit_count >= 8
  THEN LET shift == w.bit_count - 8
           byte == (w.bit_buffer \div shl1(shift)) % 256
       IN  write_bytes([bit_buffer |-> w.bit_buffer % shl1(w.bit_count - 8),
                        bit_count |-> w.bit_count - 8,
                        output_bytes |-> Append(w.output_bytes, byte)])
  ELSE w

write_bits(w, value, bits) ==
  write_bytes([w EXCEPT !.bit_buffer = bit_or(w.bit_buffer * shl1(bits), value),
                        !.bit_count = w.bit_count + bits])

\* faulty variant of flush: the bits left are completed by zeros
flush_zeros(w) ==
  IF w.bit_count > 0
  THEN [bit_buffer |-> 0, bit_count |-> 0,
        output_bytes |-> Append(w.output_bytes, w.bit_buffer * shl1(8 - w.bit_count))]
  ELSE w

\* BitWriter.flush(): the bits left are completed to a byte by ones
flush(w) ==
  IF w.bit_count > 0
  THEN LET pad == shl1(8 - w.bit_count) - 1
       IN  [bit_buffer |-> 0, bit_count |-> 0,
            output_bytes |-> Append(w.output_bytes,
                                    bit_or(w.bit_buffer * shl1(8 - w.bit_count), pad))]
  ELSE w

\* BitReader(data): the reader and the exception it raised
BitReader(data) ==
  [data |-> data, index |-> 0, bit_buffer |-> 0, bit_count |-> 0, value |-> 0,
   err |-> "none"]

to_reader(w) == BitReader(w.output_bytes)

bits_remaining(r) == (Len(r.data) - r.index) * 8 + r.bit_count

\* BitReader.read_bits(n): the reader after the call, the value read in `value`
RECURSIVE read_bits(_, _)
read_bits(r, n) ==
  IF r.bit_count < n
  THEN IF r.index >= Len(r.data) THEN [r EXCEPT !.err = "ValueError"]
       ELSE read_bits([r EXCEPT !.bit_buffer = bit_or(r.bit_buffer * 256, r.data[r.index + 1]),
                                !.bit_count = r.bit_count + 8,
                                !.index = r.index + 1], n)
  ELSE LET shift == r.bit_count - n
       IN  [r EXCEPT !.value = (r.bit_buffer \div shl1(shift)) % shl1(n),
                     !.bit_count = r.bit_count - n,
                     !.bit_buffer = r.bit_buffer % shl1(r.bit_count - n)]

\* list(reader.iter_by(n))
RECURSIVE iter_by(_, _)
iter_by(r, n) ==
  IF bits_remaining(r) >= n
  THEN LET read == read_bits(r, n) IN <<read.value>> \o iter_by(read, n)
  ELSE <<>>

\* compress(text) from the character i on: the writer and the exception raised
RECURSIVE compress_from(_, _, _)
compress_from(w, text, i) ==
  IF i > Len(text) THEN [writer |-> flush(w), err |-> "none"]
  ELSE LET c == text[i]
       IN  IF contains(alphabet, c)
           THEN compress_from(write_bits(w, index(alphabet, c), 6), text, i + 1)
           ELSE IF contains(second_alphabet, c)
           THEN compress_from(write_bits(write_bits(w, 62, 6), index(second_alphabet, c), 8),
                              text, i + 1)
           ELSE IF c > 65535 THEN [writer |-> w, err |-> "ValueError"]
           ELSE compress_from(write_bits(write_bits(w, 63, 6), c, 16), text, i + 1)

compress(text) == compress_from(BitWriter, text, 1)

\* bcode(text): the letters and the exception raised
bcode(text) ==
  LET compressed == compress(text)
  IN  IF compressed.err # "none" THEN [code |-> <<>>, err |-> compressed.err]
      ELSE LET nibbles == iter_by(to_reader(compressed.writer), 4)
           IN  [code |-> [i \in DOMAIN nibbles |-> betabet[nibbles[i] + 1]], err |-> "none"]

\* decompress(reader) with the characters decoded so far
RECURSIVE decompress(_, _)
decompress(r, result) ==
  IF bits_remaining(r) >= 6
  THEN LET coded == read_bits(r, 6)
           code == coded.value
       IN  IF code < 62 THEN decompress(coded, Append(result, alphabet[code + 1]))
           ELSE IF code = 62
           THEN IF bits_remaining(coded) < 8 THEN [text |-> result, err |-> "none"]
                ELSE LET extra == read_bits(coded, 8)
                     IN  IF extra.value + 1 \in DOMAIN second_alphabet
                         THEN decompress(extra,
                                         Append(result, second_alphabet[extra.value + 1]))
                         ELSE [text |-> result, err |-> "IndexError"]
           ELSE IF bits_remaining(coded) < 16 THEN [text |-> result, err |-> "none"]
                ELSE LET extra == read_bits(coded, 16)
                     IN  decompress(extra, Append(result, extra.value))
  ELSE [text |-> result, err |-> "none"]

\* the for loop of bdecode
RECURSIVE write_letters(_, _, _)
write_letters(w, text, i) ==
  IF i > Len(text) THEN w
  ELSE write_letters(write_bits(w, index(betabet, text[i]), 4), text, i + 1)

\* bdecode(text) of letters of betabet
bdecode(text) == decompress(to_reader(flush(write_letters(BitWriter, text, 1))), <<>>)

\* the characters of the texts: the first and the last of `alphabet` (a, 9),
\* the first and the last of `second_alphabet`, two others of the Basic
\* Multilingual Plane (U+4E2D, U+FFFF) and one beyond it (U+1F600)
CodeChars == {alphabet[1], alphabet[Len(alphabet)],
              second_alphabet[1], second_alphabet[Len(second_alphabet)],
              20013, 65535, 128512}

Texts == UNION {[1..n -> CodeChars] : n \in 0..MaxText}

InitCode ==
  /\ doc = <<>>
  /\ heap \in Texts
  /\ history = <<>>
  /\ trace = NoTrace

\* ename = bcode(name)
Encode ==
  /\ history = <<>>
  /\ \E r \in {bcode(heap)} : history' = <<[text |-> r.code, err |-> r.err]>>
  /\ UNCHANGED <<doc, heap, trace>>

\* rname = bdecode(ename)
Decode ==
  /\ Len(history) = 1
  /\ history[1].err = "none"
  /\ \E r \in {bdecode(history[1].text)} : history' = Append(history, r)
  /\ UNCHANGED <<doc, heap, trace>>

NextCode == Encode \/ Decode

SpecCode == InitCode /\ [][NextCode]_vars

\* ================================================================== claims

\* the call whose walk `trace` records
Called == history # <<>>
Last == history[Len(history)]

\* the rule path of an element: the path segments of the Dir elements from the
\* root down to it
RECURSIVE RulePath(_)
RulePath(n) ==
  IF n = 0 THEN <<>>
  ELSE RulePath(doc[n].parent)
         \o (IF doc[n].tag = "dir" /\ "path" \in DOMAIN doc[n].attrib
             THEN <<doc[n].attrib["path"]>> ELSE <<>>)

\* the recursive flag as a boolean: written, and written as a true value
RecursiveSet(element) ==
  "recursive" \in DOMAIN element.attrib /\ element.attrib["recursive"] = "true"

VisitsOf(tag) == {i \in DOMAIN trace.visits : doc[trace.visits[i].node].tag = tag}

\* dict[key] of a dict value, <<>> for a key it does not hold
ValuesOf(value, key) ==
  IF \E i \in DOMAIN value : value[i].k = key
  THEN value[CHOOSE i \in DOMAIN value : value[i].k = key].v
  ELSE <<>>

\* C1: at every Dir or Files element the walk reaches, the meta_path used for
\* matching is the element's rule path, whatever siblings were visited before.
C1_MetaPathIsRulePath ==
  \A i \in DOMAIN trace.visits :
    trace.visits[i].meta_path = RulePath(trace.visits[i].node)

\* C2: in the scenario document doc/readme.txt resolves to exactly
\* {dc:creator: [Lib], dc:title: [Note]} and other/readme.txt to the empty map;
\* and a selector gives its metadata to a file only if the rule path of the
\* Dir elements above it is a prefix of the file's directory.
C2_ScenarioAndPrefix ==
  Called =>
    /\ (doc = ScenarioDoc /\ Last.file = [dir |-> <<"doc">>, name |-> NameReadme]) =>
         /\ Last.err = "none"
         /\ DictValue(heap, Last.metadata) =
              << [k |-> "dc:creator", v |-> <<<<"Lib">>>>],
                 [k |-> "dc:title", v |-> <<<<"Note">>>>] >>
    /\ (doc = ScenarioDoc /\ Last.file = [dir |-> <<"other">>, name |-> NameReadme]) =>
         /\ Last.err = "none"
         /\ DictValue(heap, Last.metadata) = <<>>
    /\ \A i \in VisitsOf("files") :
         trace.visits[i].matched =>
           is_prefix(RulePath(trace.visits[i].node), Last.file.dir)

\* C3: a Dir element is on the path of the file iff its rule path is a prefix
\* of the file's directory, and the walk reaches an element only through
\* matching Dir elements.
C3_DirOnPathIffPrefix ==
  Called =>
    /\ \A i \in VisitsOf("dir") :
         trace.visits[i].matched <=>
           is_prefix(RulePath(trace.visits[i].node), Last.file.dir)
    /\ \A i \in DOMAIN trace.visits :
         doc[trace.visits[i].node].parent # 0 =>
           \E j \in 1..(i - 1) :
             /\ trace.visits[j].node = doc[trace.visits[i].node].parent
             /\ trace.visits[j].matched

\* C4: a selector with a filename matches iff the file name is that filename
\* and the file's directory is the rule path or the selector is recursive.
C4_FilenameSelector ==
  Called =>
    \A i \in VisitsOf("files") :
      LET element == doc[trace.visits[i].node]
      IN  "filename" \in DOMAIN element.attrib =>
            (trace.visits[i].matched <=>
               /\ Last.file.name = element.attrib["filename"]
               /\ (Last.file.dir = RulePath(trace.visits[i].node)
                     \/ RecursiveSet(element)))

\* C5: a selector without filename matches iff the file name matches its
\* pattern (default *) and the file's directory is the rule path or the
\* recursive flag is true; a flag written as a false value is false.
C5_PatternSelector ==
  Called =>
    \A i \in VisitsOf("files") :
      LET element == doc[trace.visits[i].node]
      IN  "filename" \notin DOMAIN element.attrib =>
            (trace.visits[i].matched <=>
               /\ fnmatch(Last.file.name,
                          IF "pattern" \in DOMAIN element.attrib
                          THEN element.attrib["pattern"] ELSE <<"*">>)
               /\ (Last.file.dir = RulePath(trace.visits[i].node)
                     \/ RecursiveSet(element)))

\* the attribute-form operations an element carries for a key
SetsKey(element, key) ==
  \E i \in DOMAIN SetAttributes :
    SetAttributes[i][2] = key /\ SetAttributes[i][1] \in DOMAIN element.attrib

AddsToKey(element, key) ==
  \E i \in DOMAIN AddAttributes :
    AddAttributes[i][2] = key /\ AddAttributes[i][1] \in DOMAIN element.attrib

\* the file lies in directory a, where both selectors of an overlay document
\* match it, the recursive one last
InDirA == Called /\ Last.file.dir = <<"a">>

FinalValues(key) == ValuesOf(DictValue(heap, Last.metadata), key)

\* C6: along a root-to-selector path a Set of a key leaves exactly [v] for it,
\* whatever was inherited, and an Add leaves the inherited values followed by
\* v; Add(title, X) above Set(title, Y) finalizes to [Y], above Add(title, Y)
\* to [X, Y].
C6_SetReplacesAddAppends ==
  /\ \A n \in DOMAIN trace.overlays :
       LET o == trace.overlays[n]
           element == o.element
       IN  /\ \A i \in DOMAIN SetAttributes :
                LET attr == SetAttributes[i][1]
                    key == SetAttributes[i][2]
                IN  (element.blocks = <<>> /\ attr \in DOMAIN element.attrib
                       /\ ~AddsToKey(element, key)) =>
                      ValuesOf(o.outValue, key) = <<element.attrib[attr]>>
           /\ \A i \in DOMAIN AddAttributes :
                LET attr == AddAttributes[i][1]
                    key == AddAttributes[i][2]
                IN  (element.blocks = <<>> /\ attr \in DOMAIN element.attrib
                       /\ ~SetsKey(element, key)) =>
                      ValuesOf(o.outValue, key) =
                        ValuesOf(o.baseValue, key) \o <<element.attrib[attr]>>
  /\ (InDirA /\ doc = OverlayDoc("add", "none", "set")) =>
       FinalValues("dc:title") = <<Val("S", 4)>>
  /\ (InDirA /\ doc = OverlayDoc("add", "none", "add")) =>
       FinalValues("dc:title") = <<Val("A", 2), Val("A", 4)>>

\* a Set met inherited values of its key, and an Add did
C6_Witness ==
  /\ InDirA
  /\ doc = OverlayDoc("add", "add", "set")
  /\ \E n \in DOMAIN trace.overlays :
       /\ ValuesOf(trace.overlays[n].baseValue, "dc:title") = <<Val("A", 2)>>
       /\ ValuesOf(trace.overlays[n].outValue, "dc:title") = <<Val("S", 4)>>
  /\ \E n \in DOMAIN trace.overlays :
       /\ ValuesOf(trace.overlays[n].baseValue, "dc:title") = <<Val("A", 2)>>
       /\ ValuesOf(trace.overlays[n].outValue, "dc:title") = <<Val("A", 2), Val("A", 3)>>

\* C7: process_metadata leaves the map it is given, and every list in it, as
\* they were; so every element starts from exactly the overlay its parent
\* produced, whatever an earlier sibling set or added.
C7_OverlayLeavesBaseUnchanged ==
  /\ \A n \in DOMAIN trace.overlays :
       /\ trace.overlays[n].out # trace.overlays[n].base
       /\ DictValue(heap, trace.overlays[n].base) = trace.overlays[n].baseValue
  /\ \A i \in DOMAIN trace.visits :
       doc[trace.visits[i].node].parent # 0 =>
         \E n \in DOMAIN trace.overlays :
           /\ trace.overlays[n].element = doc[doc[trace.visits[i].node].parent]
           /\ trace.overlays[n].out = trace.visits[i].base
           /\ trace.overlays[n].outValue = trace.visits[i].baseValue

\* two siblings matched, the earlier of which added to a key it inherited
C7_Witness ==
  \E i, j \in DOMAIN trace.visits :
    /\ i < j
    /\ trace.visits[i].matched /\ trace.visits[j].matched
    /\ doc[trace.visits[i].node].parent = doc[trace.visits[j].node].parent
    /\ doc[trace.visits[i].node].parent # 0
    /\ ValuesOf(trace.visits[i].baseValue, "dc:title") # <<>>
    /\ \E n \in DOMAIN trace.overlays :
         /\ trace.overlays[n].element = doc[trace.visits[i].node]
         /\ Len(ValuesOf(trace.overlays[n].outValue, "dc:title"))
              > Len(ValuesOf(trace.visits[i].baseValue, "dc:title"))

\* C8: every value that comes from a fragment of the metadata block is stored
\* as the marker followed by the serialized fragment, for set and for add,
\* whether or not the key had values.
C8_FragmentsCarryMarker ==
  \A n \in DOMAIN trace.overlays :
    LET o == trace.overlays[n]
    IN  o.element.blocks # <<>> =>
          \A c \in DOMAIN o.element.blocks[1] :
            LET child == o.element.blocks[1][c]
            IN  Len(child.kids) > 0 =>
                  LET kv == extra_key_value(child)
                      stored == Range(ValuesOf(o.outValue, kv.meta_name))
                  IN  /\ (XmlMarker \o kv.value) \in stored
                      /\ kv.value \notin stored

IsMarked(value) == Len(value) > 0 /\ <<value[1]>> = XmlMarker

\* C9: normalization keeps a marker-tagged value as it is: the value is still
\* a value of its key afterwards, also for a key of splitters or joiners.
C9_MarkedValuesOpaque ==
  (Called /\ Last.err = "none" /\ trace.collector # <<>>) =>
    LET keys == chain_keys(heap, trace.collector, Len(trace.collector))
    IN  \A i \in DOMAIN keys :
          \A value \in Range(heap.lists[chain_get(heap, trace.collector, keys[i])]) :
            IsMarked(value) => value \in Range(FinalValues(keys[i]))

\* what a call returned, as values: the map and the links with their maps
ResultValue(h, r) ==
  [err |-> r.err,
   metadata |-> IF r.err = "none" THEN DictValue(h, r.metadata) ELSE <<>>,
   links |-> IF r.err = "none"
             THEN [i \in DOMAIN h.linklists[r.links] |->
                     [type |-> h.linklists[r.links][i].type,
                      path |-> h.linklists[r.links][i].path,
                      metadata |-> DictValue(h, h.linklists[r.links][i].metadata)]]
             ELSE <<>>]

\* what resolving the file first, in a new process, returns
FreshResult(file) ==
  LET st == parse_metadata(EmptyHeap, file)
  IN  ResultValue(st, Returned(st, file))

\* the objects a returned result is made of: dicts, lists, link lists
ResultDicts(r) ==
  IF r.err # "none" THEN {}
  ELSE {r.metadata} \cup {heap.linklists[r.links][i].metadata :
                            i \in DOMAIN heap.linklists[r.links]}

ResultLists(r) == UNION {DictLists(heap, d) : d \in ResultDicts(r)}

\* C10: a file's result is the same every time it is resolved and whatever was
\* resolved before it, and the results of two calls share no dict, list or
\* link list.
C10_Deterministic ==
  /\ \A i \in DOMAIN history :
       ResultValue(heap, history[i]) = FreshResult(history[i].file)
  /\ \A i, j \in DOMAIN history :
       (i < j /\ history[i].err = "none" /\ history[j].err = "none") =>
         /\ history[i].links # history[j].links
         /\ ResultDicts(history[i]) \cap ResultDicts(history[j]) = {}
         /\ ResultLists(history[i]) \cap ResultLists(history[j]) = {}

\* the same file resolved twice, to a map with values and to links
C10_Witness ==
  /\ Len(history) = 2
  /\ history[1].file = history[2].file
  /\ history[2].err = "none"
  /\ DictValue(heap, history[2].metadata) # <<>>
  /\ heap.linklists[history[2].links] # <<>>

\* the element is the root or a child of a Dir element of the tree
RECURSIVE InDirTree(_)
InDirTree(n) ==
  doc[n].parent = 0 \/ (doc[doc[n].parent].tag = "dir" /\ InDirTree(doc[n].parent))

\* the element matches the file as the rules say: its rule path is a prefix of
\* the file's directory, and a selector also matches the name and the depth
RuleMatches(n, file) ==
  /\ InDirTree(n)
  /\ is_prefix(RulePath(n), file.dir)
  /\ doc[n].tag = "files" =>
       /\ files_match(doc[n], file.name)
       /\ (file.dir = RulePath(n) \/ RecursiveSet(doc[n]))

\* the Link children of the first links block of the selectors that matched
\* among the first i visits
RECURSIVE LinksOfMatched(_)
LinksOfMatched(i) ==
  IF i = 0 THEN <<>>
  ELSE LET element == doc[trace.visits[i].node]
           IsLink(l) == l.tag = "link"
       IN  LinksOfMatched(i - 1)
             \o (IF element.tag = "files" /\ trace.visits[i].matched
                      /\ element.links # <<>>
                 THEN SelectSeq(element.links[1], IsLink) ELSE <<>>)

\* the selectors that matched, in the order of the walk
MatchedFiles ==
  LET IsMatchedFiles(v) == v.matched /\ doc[v.node].tag = "files"
  IN  SelectSeq(trace.visits, IsMatchedFiles)

\* C11: when a file resolves, every Dir and Files element that matches the
\* file is reached and contributes, also after an earlier selector matched:
\* the collector holds one overlay for each matching selector in the order of
\* the walk, and the link list holds the links of each of them.
C11_EveryMatchContributes ==
  (Called /\ Last.err = "none") =>
    /\ \A n \in DOMAIN doc :
         (doc[n].tag \in {"dir", "files"} /\ RuleMatches(n, Last.file)) =>
           \E i \in DOMAIN trace.visits :
             trace.visits[i].node = n /\ trace.visits[i].matched
    /\ Len(trace.collector) = Len(MatchedFiles)
    /\ \A k \in DOMAIN MatchedFiles :
         \E o \in DOMAIN trace.overlays :
           /\ trace.overlays[o].element = doc[MatchedFiles[k].node]
           /\ trace.overlays[o].out = trace.collector[k]
    /\ LET links == heap.linklists[Last.links]
           expected == LinksOfMatched(Len(trace.visits))
       IN  /\ Len(links) = Len(expected)
           /\ \A k \in DOMAIN links :
                /\ links[k].type = Get(expected[k], "type")
                /\ links[k].path = Get(expected[k], "path")

\* the keys an element's own operations write: its set and add attributes
\* and the children of its first metadata block
OwnKeys(element) ==
  {SetAttributes[i][2] : i \in {j \in DOMAIN SetAttributes :
                                  SetAttributes[j][1] \in DOMAIN element.attrib}}
    \cup {AddAttributes[i][2] : i \in {j \in DOMAIN AddAttributes :
                                         AddAttributes[j][1] \in DOMAIN element.attrib}}
    \cup (IF element.blocks = <<>> THEN {}
          ELSE {IF Len(element.blocks[1][c].kids) = 0
                THEN Get(element.blocks[1][c], "type")
                ELSE extra_key_value(element.blocks[1][c]).meta_name :
                  c \in DOMAIN element.blocks[1]})

\* C12: the link list of a resolved file holds one LinkInfo for each Link
\* child of the matched selectors, in document order and with duplicates, and
\* the metadata of each is the overlay of that Link on the empty map: it has
\* only keys the Link's own operations write, and it is a map of its own.
C12_LinksStartEmpty ==
  (Called /\ Last.err = "none") =>
    LET links == heap.linklists[Last.links]
        expected == LinksOfMatched(Len(trace.visits))
    IN  /\ Len(links) = Len(expected)
        /\ \A k \in DOMAIN links :
             /\ links[k].type = Get(expected[k], "type")
             /\ links[k].path = Get(expected[k], "path")
             /\ \E o \in DOMAIN trace.overlays :
                  /\ trace.overlays[o].element = expected[k]
                  /\ trace.overlays[o].out = links[k].metadata
                  /\ trace.overlays[o].baseValue = <<>>
                  /\ trace.overlays[o].outValue = DictValue(heap, links[k].metadata)
             /\ \A e \in DOMAIN DictValue(heap, links[k].metadata) :
                  DictValue(heap, links[k].metadata)[e].k \in OwnKeys(expected[k])
             /\ links[k].metadata \notin Range(trace.collector)

\* two selectors with a title of their own and two links each matched; the
\* links that add a title hold that title alone
C12_Witness ==
  /\ InDirA
  /\ doc = OverlayDoc("add", "links", "links")
  /\ Last.err = "none"
  /\ Len(heap.linklists[Last.links]) = 4
  /\ FinalValues("dc:title") = <<Val("A", 2), Val("A", 4)>>
  /\ DictValue(heap, heap.linklists[Last.links][2].metadata) =
       <<[k |-> "dc:title", v |-> <<Val("M", 3)>>]>>
  /\ DictValue(heap, heap.linklists[Last.links][4].metadata) =
       <<[k |-> "dc:title", v |-> <<Val("M", 4)>>]>>

KeysOf(value) == {value[i].k : i \in DOMAIN value}

\* the keys of the attribute-form operations
AttributeKeys ==
  {SetAttributes[i][2] : i \in DOMAIN SetAttributes}
    \cup {AddAttributes[i][2] : i \in DOMAIN AddAttributes}

\* no element of the document, and no link, has a metadata block
OnlyAttributes ==
  \A n \in DOMAIN doc :
    /\ doc[n].blocks = <<>>
    /\ \A b \in DOMAIN doc[n].links :
         \A l \in DOMAIN doc[n].links[b] : doc[n].links[b][l].blocks = <<>>

\* C13: an attribute-form operation whose attribute the element does not have
\* does nothing.  A key none of whose operations is present on the element is
\* in the overlay iff it was inherited, with the inherited values; an absent
\* set leaves an add to append to the inherited values, an absent add leaves a
\* set to store its value alone; and a document of attribute operations only
\* raises no error.
C13_AbsentAttributeNoOp ==
  /\ \A n \in DOMAIN trace.overlays :
       LET o == trace.overlays[n]
       IN  \A key \in AttributeKeys \cup KeysOf(o.baseValue) \cup KeysOf(o.outValue) :
             /\ key \notin OwnKeys(o.element) =>
                  /\ key \in KeysOf(o.outValue) <=> key \in KeysOf(o.baseValue)
                  /\ ValuesOf(o.outValue, key) = ValuesOf(o.baseValue, key)
             /\ (o.element.blocks = <<>> /\ AddsToKey(o.element, key)
                   /\ ~SetsKey(o.element, key)) =>
                  \E v \in Range(o.element.attrib) :
                    ValuesOf(o.outValue, key) = ValuesOf(o.baseValue, key) \o <<v>>
             /\ (o.element.blocks = <<>> /\ SetsKey(o.element, key)
                   /\ ~AddsToKey(o.element, key)) =>
                  \E v \in Range(o.element.attrib) :
                    ValuesOf(o.outValue, key) = <<v>>
  /\ (Called /\ OnlyAttributes) => Last.err = "none"

\* an element without a title attribute inherited a title and kept it, and an
\* element without any operation inherited no creator and has none
C13_Witness ==
  /\ InDirA
  /\ doc = OverlayDoc("add", "creator", "none")
  /\ Last.err = "none"
  /\ \E n \in DOMAIN trace.overlays :
       LET o == trace.overlays[n]
       IN  /\ o.element = doc[3]
           /\ ValuesOf(o.baseValue, "dc:title") = <<Val("A", 2)>>
           /\ ValuesOf(o.outValue, "dc:title") = <<Val("A", 2)>>
  /\ \E n \in DOMAIN trace.overlays :
       LET o == trace.overlays[n]
       IN  /\ o.element = doc[4]
           /\ KeysOf(o.outValue) = {"dc:title"}

\* the first metadata block of the element holds a child that is neither set
\* nor add
HasUnsupported(element) ==
  /\ element.blocks # <<>>
  /\ \E c \in DOMAIN element.blocks[1] : element.blocks[1][c].tag \notin {"set", "add"}

\* some element of the document, or some link of it, has such a block
UnsupportedInDocument ==
  \E n \in DOMAIN doc :
    \/ HasUnsupported(doc[n])
    \/ \E b \in DOMAIN doc[n].links :
         \E l \in DOMAIN doc[n].links[b] : HasUnsupported(doc[n].links[b][l])

\* C14: against a document with an unsupported element in a metadata block
\* every file fails with the error of that element, also a file whose walk
\* does not reach the element that holds the block.
C14_UnsupportedFailsEveryFile ==
  (Called /\ UnsupportedInDocument) => Last.err = "ValueError"

\* a Dir element holds an element that is neither dir nor files
UnknownNodeInDocument ==
  \E n \in DOMAIN doc :
    /\ doc[n].tag \notin {"dir", "files"}
    /\ doc[n].parent # 0
    /\ doc[doc[n].parent].tag = "dir"

\* C15: against a document with an unknown element under a Dir no file
\* resolves: every call fails with an error.
C15_UnknownNodeRejected ==
  (Called /\ UnknownNodeInDocument) => Last.err # "none"

\* the first metadata block of the element holds a set or add child with
\* neither text nor a child element
HasEmptyOperation(element) ==
  /\ element.blocks # <<>>
  /\ \E c \in DOMAIN element.blocks[1] :
       LET child == element.blocks[1][c]
       IN  child.tag \in {"set", "add"} /\ child.text = PyNone /\ child.kids = <<>>

\* C16: when the walk applies an element whose metadata block holds a set or
\* add without text and without a child element, the call fails with the
\* error of the document, for set and for add; no overlay holds a null value.
C16_EmptyOperationRejected ==
  Called =>
    /\ (\E i \in DOMAIN trace.visits :
          trace.visits[i].matched /\ HasEmptyOperation(doc[trace.visits[i].node]))
         => Last.err = "ValueError"
    /\ \A n \in DOMAIN trace.overlays :
         \A e \in DOMAIN trace.overlays[n].outValue :
           PyNone \notin Range(trace.overlays[n].outValue[e].v)

\* the map a call of transform_dict_values was given, and the map it returned
InputOf(call) == DictValue(heap, call.data)
OutputOf(call) == DictValue(heap, call.result)

Contains(s, d) == \E i \in 1..(Len(s) - Len(d) + 1) : SubSeq(s, i, i + Len(d) - 1) = d

\* the parts of the first n values, trimmed, without the empty ones
RECURSIVE TrimmedParts(_, _, _)
TrimmedParts(values, d, n) ==
  IF n = 0 THEN <<>>
  ELSE LET parts == split(values[n], d)
           IsText(i) == strip(parts[i]) # <<>>
           kept == SelectSeq([i \in DOMAIN parts |-> i], IsText)
       IN  TrimmedParts(values, d, n - 1) \o [j \in DOMAIN kept |-> strip(parts[kept[j]])]

\* C17: for every key of splitters the result holds, in place of the key's
\* values, the parts of the first value, then those of the second, and so on,
\* each part trimmed and no part empty; no part holds the delimiter.
C17_SplitFlattens ==
  \A c \in DOMAIN history :
    history[c].err = "none" =>
      \A key \in DOMAIN history[c].splitters \cap KeysOf(InputOf(history[c])) :
        LET values == ValuesOf(InputOf(history[c]), key)
            d == history[c].splitters[key]
            parts == ValuesOf(OutputOf(history[c]), key)
        IN  /\ key \in KeysOf(OutputOf(history[c]))
            /\ parts = TrimmedParts(values, d, Len(values))
            /\ \A i \in DOMAIN parts :
                 /\ parts[i] # <<>>
                 /\ strip(parts[i]) = parts[i]
                 /\ ~Contains(parts[i], d)

\* the values "a," and " a" were split on ",": the empty part is dropped, the
\* second value trimmed, and the parts of both are in one list
C17_Witness ==
  \E c \in DOMAIN history :
    /\ history[c].err = "none"
    /\ history[c].splitters = "K" :> <<",">>
    /\ ValuesOf(InputOf(history[c]), "K") = << <<"a", ",">>, <<" ", "a">> >>
    /\ ValuesOf(OutputOf(history[c]), "K") = << <<"a">>, <<"a">> >>

\* the first n values with the delimiter between them
RECURSIVE JoinedUpTo(_, _, _)
JoinedUpTo(values, d, n) ==
  IF n = 0 THEN <<>>
  ELSE IF n = 1 THEN values[1]
  ELSE JoinedUpTo(values, d, n - 1) \o d \o values[n]

\* C18: the result has the keys of the input in the order of the input; a key
\* of joiners that is not a key of splitters has one value, the key's values
\* in order with the delimiter between them; a key of neither has the values
\* it had, in their order and as often.
C18_JoinAndPassThrough ==
  \A c \in DOMAIN history :
    history[c].err = "none" =>
      LET input == InputOf(history[c])
          output == OutputOf(history[c])
      IN  /\ [i \in DOMAIN output |-> output[i].k] = [i \in DOMAIN input |-> input[i].k]
          /\ \A i \in DOMAIN input :
               LET key == input[i].k
               IN  /\ (key \in DOMAIN history[c].joiners
                         /\ key \notin DOMAIN history[c].splitters) =>
                        output[i].v = <<JoinedUpTo(input[i].v, history[c].joiners[key],
                                                   Len(input[i].v))>>
                   /\ (key \notin DOMAIN history[c].joiners
                         /\ key \notin DOMAIN history[c].splitters) =>
                        output[i].v = input[i].v

\* L before K: the two values of K were joined with a comma and L, in neither
\* configuration, kept its three values
C18_Witness ==
  \E c \in DOMAIN history :
    /\ history[c].err = "none"
    /\ history[c].joiners = "K" :> <<",">>
    /\ history[c].splitters = NoKeys
    /\ InputOf(history[c]) = << [k |-> "L", v |-> OtherValues],
                                [k |-> "K", v |-> << <<"a">>, <<" ", "a">> >>] >>
    /\ OutputOf(history[c]) = << [k |-> "L", v |-> OtherValues],
                                 [k |-> "K", v |-> << <<"a", ",", " ", "a">> >>] >>

\* a call joined the values of K and the next call split the joined value on
\* the same delimiter
JoinedThenSplit ==
  /\ Len(history) = 2
  /\ history[1].err = "none" /\ history[2].err = "none"
  /\ history[1].splitters = NoKeys /\ DOMAIN history[1].joiners = {"K"}
  /\ history[2].joiners = NoKeys
  /\ history[2].splitters = "K" :> history[1].joiners["K"]
  /\ "K" \in KeysOf(InputOf(history[1]))

\* a non-empty sequence of non-empty values without the delimiter and without
\* whitespace at either end
WellFormed(values, d) ==
  /\ values # <<>>
  /\ \A i \in DOMAIN values :
       values[i] # <<>> /\ ~Contains(values[i], d) /\ strip(values[i]) = values[i]

\* a proper prefix of the delimiter is also its suffix
SelfOverlapping(d) ==
  \E k \in 1..(Len(d) - 1) : SubSeq(d, 1, k) = SubSeq(d, Len(d) - k + 1, Len(d))

\* C19: joining well-formed values of K and splitting the joined value on the
\* same delimiter gives the values back.
C19_JoinSplitInverse ==
  JoinedThenSplit =>
    LET values == ValuesOf(InputOf(history[1]), "K")
    IN  WellFormed(values, history[1].joiners["K"]) =>
          ValuesOf(OutputOf(history[2]), "K") = values

\* C19 as amended: joining well-formed values of K and splitting the joined
\* value on the same delimiter gives the values back when no proper prefix of
\* the delimiter is also its suffix, as for every delimiter of one character.
C19_JoinSplitInverseNoOverlap ==
  JoinedThenSplit =>
    LET values == ValuesOf(InputOf(history[1]), "K")
        d == history[1].joiners["K"]
    IN  (WellFormed(values, d) /\ ~SelfOverlapping(d)) =>
          /\ ValuesOf(OutputOf(history[1]), "K") = <<JoinedUpTo(values, d, Len(values))>>
          /\ ValuesOf(OutputOf(history[2]), "K") = values

\* the values "a" and "a a" were joined with a comma and split again
C19_Witness ==
  /\ JoinedThenSplit
  /\ history[1].joiners["K"] = <<",">>
  /\ ValuesOf(InputOf(history[1]), "K") = << <<"a">>, <<"a", " ", "a">> >>
  /\ ValuesOf(OutputOf(history[1]), "K") = << <<"a", ",", "a", " ", "a">> >>
  /\ ValuesOf(OutputOf(history[2]), "K") = << <<"a">>, <<"a", " ", "a">> >>

\* the key is exported: it does not start with mfterms:, has a colon, and the
\* text before its first colon is a known prefix
Exported(key) ==
  /\ ~(Len(key) >= 2 /\ key[1] = "mfterms" /\ key[2] = ":")
  /\ \E i \in DOMAIN key : key[i] = ":"
  /\ key[1] \in {"dc", "dcterms", "rdf", "spdx", "dcat"}

\* the predicate of an exported key: the namespace of the prefix and the
\* text after the first colon
PredicateOf(key) == prefix_map[key[1]] \o text_of(SubSeq(key, 3, Len(key)))

\* the triples of the graph whose object is a literal
LiteralTriples(graph) == {t \in graph : "literal" \in DOMAIN t.o}

\* C20: meta_to_rdf raises no error, and the literals of its graph are, for
\* every exported key, one triple of the subject, the key's predicate and the
\* value for each distinct plain value of the key, and nothing else: a key
\* that starts with mfterms:, has no colon or has an unknown prefix gives no
\* triple.
C20_ExportedKeys ==
  \A c \in DOMAIN history :
    LET data == DictValue(heap, trace.collector[1])
    IN  /\ history[c].err = "none"
        /\ LiteralTriples(history[c].graph) =
             UNION { { [s |-> [uri |-> SubjectUri], p |-> PredicateOf(data[i].k),
                        o |-> [literal |-> v]] :
                         v \in {w \in Range(data[i].v) : ~IsMarked(w)} } :
                     i \in {j \in DOMAIN data : Exported(data[j].k)} }

\* ------------------------------------------------------------------ upserts

\* the rows that the session.get of a call looks into
RowsSeen(call) ==
  IF call.before.autoflush THEN session_flush(call.before).rows ELSE call.before.rows

PkOf(call) == _pk_identity(call.instance)

Existed(call) == PkOf(call) \in DOMAIN RowsSeen(call)

\* the columns in which the row found differs from the instance of the call
Differing(call) ==
  {c \in Range(attr_names) : RowsSeen(call)[PkOf(call)][c] # call.instance[c]}

PolicyOf(call, c) == policy_get(call.policy, c, call.default_policy)

\* C21: a call that finds a row differing from the instance in a column whose
\* policy is STRICT raises StrictConflictError and changes no column of the
\* row, the differing columns of policy WARNING or UPDATE included
C21_StrictConflictRaises ==
  \A i \in DOMAIN history :
    LET call == history[i]
    IN  (Existed(call) /\ \E c \in Differing(call) : PolicyOf(call, c) = "strict")
          => /\ call.err = "StrictConflictError"
             /\ call.after.rows[PkOf(call)] = RowsSeen(call)[PkOf(call)]

\* the first call that added an instance of the primary key
FirstInsert(pk) ==
  CHOOSE i \in DOMAIN history :
    /\ PkOf(history[i]) = pk /\ history[i].status = "inserted"
    /\ \A j \in 1..(i - 1) : ~(PkOf(history[j]) = pk /\ history[j].status = "inserted")

\* every later call for the primary key has the policy IGNORE for the column
IgnoredSince(pk, c) ==
  \A j \in DOMAIN history :
    (j > FirstInsert(pk) /\ PkOf(history[j]) = pk) => PolicyOf(history[j], c) = "ignore"

IsInsertCall(call) ==
  call.policy = insert_policy /\ call.default_policy = insert_default_policy

\* C22: after any calls for one primary key a column whose policy was IGNORE
\* in every call after the inserting one holds the value of the inserting
\* call, and a call with the policy of FileRecord.insert leaves `created` of
\* the row it finds as it was
C22_IgnoredColumnKept ==
  /\ \A pk \in DOMAIN heap.rows : \A c \in Range(attr_names) :
       IgnoredSince(pk, c) => heap.rows[pk][c] = history[FirstInsert(pk)].instance[c]
  /\ \A i \in DOMAIN history :
       (Existed(history[i]) /\ IsInsertCall(history[i]))
         => history[i].after.rows[PkOf(history[i])]["created"]
              = RowsSeen(history[i])[PkOf(history[i])]["created"]

\* a call with the policy of FileRecord.insert found a row of another
\* `created` and overwrote another column of it
C22_Witness ==
  /\ history # <<>>
  /\ Existed(Last) /\ IsInsertCall(Last)
  /\ "created" \in Differing(Last)
  /\ Last.status = "updated"
  /\ IgnoredSince(PkOf(Last), "created")
  /\ heap.rows[PkOf(Last)]["created"] # Last.instance["created"]

\* the change-log entries that a call added
NewLog(call) == SubSeq(call.after.log, Len(call.before.log) + 1, Len(call.after.log))

\* the columns of the row found that the call overwrote with the new value
Overwritten(call) ==
  {c \in Differing(call) : call.after.rows[PkOf(call)][c] = call.instance[c]}

\* the severities of the entries that a call added for a column
SeveritiesFor(call, c) ==
  {NewLog(call)[i].severity : i \in {j \in DOMAIN NewLog(call) : NewLog(call)[j].attribute = c}}

BitsOf(c) ==
  IF contains(alphabet, c) THEN 6 ELSE IF contains(second_alphabet, c) THEN 14 ELSE 22

RECURSIVE BitsOfText(_)
BitsOfText(text) == IF text = <<>> THEN 0 ELSE BitsOf(Head(text)) + BitsOfText(Tail(text))

InPlane(text) == \A i \in DOMAIN text : text[i] <= 65535

\* the one-bits that close the last byte of the code of the text
Padding(text) == 4 * Len(history[1].text) - BitsOfText(text)

\* C24: for a text of characters of the Basic Multilingual Plane bcode
\* succeeds, the padding is of 0, 2, 4 or 6 bits, and bdecode of the code is
\* the text again, with no character more
C24_DecodeInvertsCode ==
  InPlane(heap) =>
    /\ Len(history) >= 1 =>
         /\ history[1].err = "none"
         /\ Padding(heap) \in {0, 2, 4, 6}
    /\ Len(history) = 2 => (history[2].err = "none" /\ history[2].text = heap)

\* a text of a 6-bit, a 6+8-bit and a 6+16-bit character whose code ends in
\* six bits of padding has been decoded
C24_Witness ==
  /\ Len(history) = 2
  /\ InPlane(heap)
  /\ {BitsOf(heap[i]) : i \in DOMAIN heap} = {6, 14, 22}
  /\ Padding(heap) = 6
  /\ history[2].text = heap

\* the texts decoded have every amount of padding
C24_WitnessNoPadding ==
  /\ Len(history) = 2
  /\ heap # <<>>
  /\ Padding(heap) = 0
  /\ history[2].text = heap

\* ------------------------------------------------------------------- merging

\* the visits of the selectors that matched, in the order of the walk
MatchedSelectors ==
  LET IsMatch(i) == doc[trace.visits[i].node].tag = "files" /\ trace.visits[i].matched
      RECURSIVE upto(_)
      upto(n) == IF n = 0 THEN <<>>
                 ELSE upto(n - 1) \o (IF IsMatch(n) THEN <<n>> ELSE <<>>)
  IN  upto(Len(trace.visits))

\* the map collected k-th, as a value
Collected(k) == DictValue(heap, trace.collector[k])

CollectedKeys == UNION {KeysOf(Collected(k)) : k \in DOMAIN trace.collector}

\* the map collected last among those that hold the key
LastHolding(key) ==
  CHOOSE k \in DOMAIN trace.collector :
    /\ key \in KeysOf(Collected(k))
    /\ \A j \in DOMAIN trace.collector : j > k => key \notin KeysOf(Collected(j))

\* the values of a key as parse_metadata normalizes them
Normalized(key, values) ==
  IF key \in DOMAIN Splitters THEN flatten_split(values, Splitters[key])
  ELSE IF key \in DOMAIN Joiners THEN <<join(values, Joiners[key])>>
  ELSE values

\* C25: the maps collected are those of the matching selectors in document
\* order; the result holds every key of any of them, each with the
\* (normalized) values of the last map that holds the key: an Add of a later
\* selector does not append to what an earlier sibling selector added, and a
\* key of an earlier selector alone is kept
C25_LastMatchWinsPerKey ==
  (Called /\ Last.err = "none") =>
    /\ Len(trace.collector) = Len(MatchedSelectors)
    /\ \A k \in DOMAIN trace.collector :
         \E n \in DOMAIN trace.overlays :
           /\ trace.overlays[n].out = trace.collector[k]
           /\ trace.overlays[n].element = doc[trace.visits[MatchedSelectors[k]].node]
           /\ trace.overlays[n].base = trace.visits[MatchedSelectors[k]].base
           /\ trace.overlays[n].outValue = Collected(k)
    /\ KeysOf(DictValue(heap, Last.metadata)) = CollectedKeys
    /\ \A key \in CollectedKeys :
         FinalValues(key) = Normalized(key, ValuesOf(Collected(LastHolding(key)), key))
    /\ (InDirA /\ doc = OverlayDoc("none", "add", "add")) =>
         FinalValues("dc:title") = <<Val("A", 4)>>
    /\ (InDirA /\ doc = OverlayDoc("none", "set", "descr")) =>
         /\ FinalValues("dc:title") = <<Val("S", 3)>>
         /\ FinalValues("dc:description") = <<Val("D", 4)>>

\* two sibling selectors matched; both added to a key, and the earlier one
\* alone holds another key
C25_Witness ==
  /\ Called /\ Last.err = "none"
  /\ Len(trace.collector) = 2
  /\ doc[trace.visits[MatchedSelectors[1]].node].parent
       = doc[trace.visits[MatchedSelectors[2]].node].parent
  /\ AddsToKey(doc[trace.visits[MatchedSelectors[1]].node], "dc:title")
  /\ AddsToKey(doc[trace.visits[MatchedSelectors[2]].node], "dc:title")
  /\ ValuesOf(Collected(1), "dc:title") # ValuesOf(Collected(2), "dc:title")
  /\ FinalValues("dc:title") = ValuesOf(Collected(2), "dc:title")
  /\ "dc:date" \in KeysOf(Collected(1)) \ KeysOf(Collected(2))
  /\ FinalValues("dc:date") = ValuesOf(Collected(1), "dc:date")

\* no selector that the walk reached matched the file
NoSelectorMatched == \A i \in VisitsOf("files") : ~trace.visits[i].matched

\* the Dir elements on the path of the file: those that the walk matched
DirsOnPath == {trace.visits[i].node : i \in {j \in VisitsOf("dir") : trace.visits[j].matched}}

\* C26: when no selector matches the file the call collects nothing and
\* returns the empty map and an empty link list, whatever the Dir elements on
\* the path of the file set or add; it fails only when a Dir element on the
\* path holds an operation that fails by itself
C26_NoSelectorNoMetadata ==
  (Called /\ NoSelectorMatched) =>
    /\ trace.collector = <<>>
    /\ Last.err = "none" =>
         /\ DictValue(heap, Last.metadata) = <<>>
         /\ heap.linklists[Last.links] = <<>>
    /\ Last.err # "none" =>
         \E n \in DirsOnPath : HasEmptyOperation(doc[n]) \/ HasUnsupported(doc[n])

\* no selector matched a file on whose path one Dir element sets a title and
\* another adds to it, and the file has no metadata
C26_Witness ==
  /\ Called /\ NoSelectorMatched /\ Last.err = "none"
  /\ VisitsOf("files") # {}
  /\ \E n \in DirsOnPath : SetsKey(doc[n], "dc:title")
  /\ \E n \in DOMAIN trace.overlays :
       /\ trace.overlays[n].element.tag = "dir"
       /\ ValuesOf(trace.overlays[n].outValue, "dc:title") = <<Val("S", 1), Val("A", 2)>>
  /\ DictValue(heap, Last.metadata) = <<>>
  /\ heap.linklists[Last.links] = <<>>

\* ------------------------------------------------------------------ ordering

\* the attribute of an element that sets, and that adds to, a key
SetValue(element, key) ==
  element.attrib[SetAttributes[CHOOSE i \in DOMAIN SetAttributes :
                                 SetAttributes[i][2] = key][1]]

AddValue(element, key) ==
  element.attrib[AddAttributes[CHOOSE i \in DOMAIN AddAttributes :
                                 AddAttributes[i][2] = key][1]]

\* the values of a key after the attributes of the element: the Set first,
\* then the Add
AfterAttributes(element, base, key) ==
  (IF SetsKey(element, key) THEN <<SetValue(element, key)>> ELSE ValuesOf(base, key))
    \o (IF AddsToKey(element, key) THEN <<AddValue(element, key)>> ELSE <<>>)

\* the values of a key after the children of a metadata block from the i-th
\* on, one after the other
RECURSIVE AfterBlock(_, _, _, _)
AfterBlock(children, i, key, values) ==
  IF i > Len(children) THEN values
  ELSE AfterBlock(children, i + 1, key,
                  IF Get(children[i], "type") # key THEN values
                  ELSE IF children[i].tag = "set" THEN <<children[i].text>>
                  ELSE Append(values, strip(children[i].text)))

\* the children of the first metadata block are set and add elements with a
\* text and no child element
ScalarBlock(element) ==
  element.blocks # <<>> =>
    \A c \in DOMAIN element.blocks[1] :
      LET child == element.blocks[1][c]
      IN  child.tag \in {"set", "add"} /\ child.kids = <<>> /\ child.text # PyNone

OverlayKeys(o) ==
  KeysOf(o.baseValue) \cup KeysOf(o.outValue)
    \cup {SetAttributes[i][2] : i \in DOMAIN SetAttributes}

\* C27: the overlay of an element holds, for every key, the values left by
\* the attribute Set, then the attribute Add, then the children of the first
\* metadata block in document order, a second block being ignored; so title
\* X with title.add Y over any inherited title gives [X, Y]
C27_SetsThenAddsThenBlock ==
  \A n \in DOMAIN trace.overlays :
    LET o == trace.overlays[n]
    IN  /\ ScalarBlock(o.element) =>
             \A key \in OverlayKeys(o) :
               ValuesOf(o.outValue, key) =
                 AfterBlock(IF o.element.blocks = <<>> THEN <<>> ELSE o.element.blocks[1],
                            1, key, AfterAttributes(o.element, o.baseValue, key))
        /\ (o.element.blocks = <<>> /\ SetsKey(o.element, "dc:title")
              /\ AddsToKey(o.element, "dc:title")) =>
             ValuesOf(o.outValue, "dc:title")
               = <<o.element.attrib["title"], o.element.attrib["title.add"]>>

\* an element with title, title.add and two metadata blocks inherited a title
\* and an element with title and title.add alone did
C27_Witness ==
  /\ \E n \in DOMAIN trace.overlays :
       LET o == trace.overlays[n]
       IN  /\ Len(o.element.blocks) = 2
           /\ ValuesOf(o.baseValue, "dc:title") = <<Val("A", 2)>>
           /\ ValuesOf(o.outValue, "dc:title") = <<Val("S", 3), Val("A", 3), Val("T", 3)>>
           /\ ValuesOf(o.outValue, "dc:date") = <<Val("U", 3)>>
  /\ \E n \in DOMAIN trace.overlays :
       LET o == trace.overlays[n]
       IN  /\ o.element.blocks = <<>>
           /\ ValuesOf(o.baseValue, "dc:title") = <<Val("A", 2)>>
           /\ ValuesOf(o.outValue, "dc:title") = <<Val("S", 4), Val("A", 4)>>

\* a call that configures K in joiners and in splitters, for a map holding K
BothRules(call) ==
  /\ "K" \in DOMAIN call.joiners /\ "K" \in DOMAIN call.splitters
  /\ "K" \in KeysOf(InputOf(call))

\* C28: a key configured in joiners and in splitters is split and not joined:
\* the call succeeds and the result holds for the key the trimmed non-empty
\* parts of its values, in order, whatever the joiner is
C28_SplitWinsOverJoin ==
  \A c \in DOMAIN history :
    BothRules(history[c]) =>
      /\ history[c].err = "none"
      /\ LET values == ValuesOf(InputOf(history[c]), "K")
         IN  ValuesOf(OutputOf(history[c]), "K") =
               TrimmedParts(values, history[c].splitters["K"], Len(values))

\* K was configured in both, with several values one of which holds the
\* delimiter: the result is the parts and not the joined value
C28_Witness ==
  /\ Len(history) = 1
  /\ BothRules(history[1])
  /\ LET values == ValuesOf(InputOf(history[1]), "K")
     IN  /\ Len(values) = 2
         /\ Contains(values[1], history[1].splitters["K"])
         /\ Len(ValuesOf(OutputOf(history[1]), "K")) = 3
         /\ ValuesOf(OutputOf(history[1]), "K")
              # <<join(values, history[1].joiners["K"])>>
====
